---- MODULE Spec2Model ----
(***************************************************************************)
(* A model of perlin-core's posting-list storage and query pipeline.       *)
(*                                                                         *)
(* Part 1 (specification Spec / SpecSeek): one Listing writing through a   *)
(* RamPageCache, and a PostingDecoder reading it back.                     *)
(* Specification SpecShared: several Listings writing through one cache.   *)
(* Specification SpecSteps: Listing::add run one loop turn at a time.       *)
(* Part 2 (specification SpecQuery): a BooleanIndex built by               *)
(* index_documents and queried through execute_query.                      *)
(*                                                                         *)
(* u32 values are kept as their residue modulo 2^32, written as the        *)
(* two's-complement representative (0xFFFFFFFF is -1): sums and            *)
(* differences of the small doc ids used here are then exact, and the      *)
(* unsigned order is U32Less.                                              *)
(***************************************************************************)
EXTENDS Integers, Sequences, FiniteSets, TLC

VARIABLES
    listing,     \* the Listing under test (src/index/listing.rs)
    cache,       \* the RamPageCache it writes through
    decoder,     \* None or the live PostingDecoder borrowed from the listing
    added,       \* history: every posting handed to Listing::add, in call order
    calls,       \* history: the add calls (with their slice lengths) and the commits
    index,       \* None or the BooleanIndex (src/index/boolean_index/mod.rs)
    documents,   \* history: the collection the index was built from
    query,       \* None or the query handed to execute_query
    result,      \* the doc ids that query's result iterator yielded
    shared,      \* the Listings that write through one cache, each with its history
    pending,     \* the add calls in progress, innermost last: each one's slice and loop index
    ring,        \* a ring buffer under test (src/utils/ring_buffer.rs) with its history
    fs,          \* an FsStorage (src/index/storage/fs_storage.rs) with its history
    folder,      \* a persistent index: its files, and the index loaded from them
    chunk,       \* a hot chunk and its archive (src/chunked_storage/chunk_ref.rs)
    serial,      \* an index and its serialized form (src/index/boolean_index/persistence.rs)
    voc,         \* a vocabulary (src/index/vocabulary.rs) with its history
    fault        \* None or the ship of a Listing that a failing cache operation cut short

lvars == <<listing, cache, decoder, added, calls>>
qvars == <<index, documents, query, result>>
uvars == <<ring, fs, folder, chunk, serial, voc, fault>>
vars == <<listing, cache, decoder, added, calls, index, documents, query, result, shared, pending,
          ring, fs, folder, chunk, serial, voc, fault>>

-----------------------------------------------------------------------------
(* Program constants *)

\* utils/ring_buffer.rs: const SIZE
SIZE == 64
\* page_manager: BLOCKSIZE, the bytes of a Block
BLOCKSIZE == 64
\* page_manager/page.rs: PAGESIZE, the blocks of a Page
PAGESIZE == 64
\* Listing::add: "if i % 16 == 0"
SHIP_EVERY == 16
\* DocId::none(), the all-ones u32
DocIdNone == -1

\* the postings one block holds under the NaiveCompressor
BlockPostings == BLOCKSIZE \div 4

(* Bounds of the exploration *)
MaxCalls == 4
MaxSeekCalls == 3
MaxPostings == 1100
MaxNexts == 2

-----------------------------------------------------------------------------
(* Option values: None is the empty sequence, Some(x) is <<x>> *)
None == << >>
Some(x) == <<x>>
IsSome(o) == Len(o) = 1
Unwrap(o) == o[1]

\* a sequence of n zeros (an explicit tuple)
Zeros(n) == [i \in 1..n |-> 0] \o << >>

\* the sequence f[1], ..., f[n] as an explicit tuple
Tuple(f) == f \o << >>

\* "let x = e; body" is written (CHOOSE v \in {body : x \in {e}} : TRUE), the
\* element of a one-element set: e is evaluated once, where it is bound.

(* Posting / DocId as u32 *)
U32Less(a, b) ==
    IF (a < 0) = (b < 0) THEN a < b ELSE b < 0

AddBase(e, base) == e + base
SubBase(e, base) == e - base

-----------------------------------------------------------------------------
(* utils/ring_buffer.rs *)

\* buff[k + 1] is the array slot k.  RingBuffer::new leaves the array uninitialized;
\* a slot is only read after it was written (below count), so its first content
\* is never seen and is written 0 here.
RingBuffer_new == [buff |-> Zeros(SIZE), start |-> 0, count |-> 0, base |-> 0]

push_back(rb, element) ==
    [rb EXCEPT !.buff[((rb.start + rb.count) % SIZE) + 1] = element,
               !.count = @ + 1]

\* pop_front that counts the element out and leaves start where it was
pop_front_keeps_start(rb) ==
    IF rb.count > 0
    THEN [element |-> Some(rb.buff[rb.start + 1]),
          rb |-> [rb EXCEPT !.count = @ - 1]]
    ELSE [element |-> None, rb |-> rb]

pop_front(rb) ==
    IF rb.count > 0
    THEN [element |-> Some(rb.buff[rb.start + 1]),
          rb |-> [rb EXCEPT !.count = @ - 1, !.start = (@ + 1) % SIZE]]
    ELSE [element |-> None, rb |-> rb]

peek_front(rb) ==
    IF rb.count > 0 THEN Some(rb.buff[rb.start + 1]) ELSE None

flush(rb) == [rb EXCEPT !.start = 0, !.count = 0]

count(rb) == rb.count

is_empty(rb) == rb.count = 0

set_base(rb, base) == [rb EXCEPT !.base = base]

pop_front_biased(rb) ==
    (CHOOSE v \in {IF IsSome(p.element)
          THEN [element |-> Some(SubBase(Unwrap(p.element), rb.base)), rb |-> p.rb]
          ELSE p : p \in {pop_front(rb)}} : TRUE)

\* push_back_biased that queues the element as it is
push_back_unbiased(rb, element) ==
    push_back(rb, element)

push_back_biased(rb, element) ==
    push_back(rb, AddBase(element, rb.base))

\* the queued elements, oldest first (a view used by the properties)
RECURSIVE QueueFrom(_, _)
QueueFrom(rb, k) ==
    IF k >= rb.count \/ k >= SIZE THEN << >>
    ELSE <<rb.buff[((rb.start + k) % SIZE) + 1]>> \o QueueFrom(rb, k + 1)
Queue(rb) == QueueFrom(rb, 0)

-----------------------------------------------------------------------------
(* compressor/naive_compressor.rs: a Block is BLOCKSIZE/4 u32 words *)

EmptyBlock == Zeros(BlockPostings)

RECURSIVE PopBlock(_, _, _, _)
\* the turns lo..hi of "for i in 0..BLOCKSIZE/4 { block[i] = data.pop_front_biased()
\* .unwrap_or_else(none) }" (in compress the buffer holds a posting for every turn);
\* the loop is unfolded by halves
PopBlock(rb, block, lo, hi) ==
    IF lo = hi
    THEN (CHOOSE v \in {[block |-> [block EXCEPT ![lo + 1] = IF IsSome(p.element)
                                                    THEN Unwrap(p.element)
                                                    ELSE DocIdNone],
                rb |-> p.rb] : p \in {pop_front_biased(rb)}} : TRUE)
    ELSE (CHOOSE v \in {PopBlock(left.rb, left.block, ((lo + hi) \div 2) + 1, hi) :
               left \in {PopBlock(rb, block, lo, (lo + hi) \div 2)}} : TRUE)

\* compress that waits for more than a block's worth of postings
compress_late(rb) ==
    IF rb.count > BlockPostings
    THEN (CHOOSE v \in {[block |-> Some(r.block), rb |-> r.rb] :
               r \in {PopBlock(rb, EmptyBlock, 0, BlockPostings - 1)}} : TRUE)
    ELSE [block |-> None, rb |-> rb]

\* compress that drains whatever the buffer holds
compress_partial(rb) ==
    IF rb.count > 0
    THEN (CHOOSE v \in {[block |-> Some(r.block), rb |-> r.rb] :
               r \in {PopBlock(rb, EmptyBlock, 0, BlockPostings - 1)}} : TRUE)
    ELSE [block |-> None, rb |-> rb]

compress(rb) ==
    IF rb.count >= BlockPostings
    THEN (CHOOSE v \in {[block |-> Some(r.block), rb |-> r.rb] :
               r \in {PopBlock(rb, EmptyBlock, 0, BlockPostings - 1)}} : TRUE)
    ELSE [block |-> None, rb |-> rb]

force_compress(rb) == PopBlock(rb, EmptyBlock, 0, BlockPostings - 1)

RECURSIVE decompress_range(_, _, _, _)
\* the turns lo..hi of "for num in &nums { if did != none { push_back_biased } else
\* { return } }", unfolded by halves; returned: the loop hit the sentinel
decompress_range(block, rb, lo, hi) ==
    IF lo = hi
    THEN IF block[lo + 1] # DocIdNone
         THEN [rb |-> push_back_biased(rb, block[lo + 1]), returned |-> FALSE]
         ELSE [rb |-> rb, returned |-> TRUE]
    ELSE (CHOOSE v \in {IF left.returned THEN left
               ELSE decompress_range(block, left.rb, ((lo + hi) \div 2) + 1, hi) :
               left \in {decompress_range(block, rb, lo, (lo + hi) \div 2)}} : TRUE)

decompress(block, rb) == decompress_range(block, rb, 0, BlockPostings - 1).rb

-----------------------------------------------------------------------------
(* page_manager: BlockId, Pages, UnfullPage, RamPageCache *)

BlockId_first == 0
BlockId_last == PAGESIZE - 1
BlockId_inc(b) == (b + 1) % PAGESIZE

Pages_new == [full |-> << >>, unfull |-> None]
Pages_len(pages) == Len(pages.full) + (IF IsSome(pages.unfull) THEN 1 ELSE 0)
Pages_push(pages, page_id) == [pages EXCEPT !.full = Append(@, page_id)]
add_unfull(pages, unfull_page) == [pages EXCEPT !.unfull = Some(unfull_page)]
take_unfull(pages) == [pages EXCEPT !.unfull = None]
\* Pages::get
Pages_get(pages, ptr) ==
    IF ptr < Len(pages.full) THEN Some(pages.full[ptr + 1])
    ELSE IF IsSome(pages.unfull) /\ ptr < Pages_len(pages)
         THEN Some(Unwrap(pages.unfull).page_id)
         ELSE None

\* a Page: its PAGESIZE blocks, block id b at index b + 1
EmptyPage == Tuple([b \in 1..PAGESIZE |-> EmptyBlock])

\* ram: the pages being filled, cache page id i at index i + 1 (None once evicted);
\* disk: the backing store, a dense sequence of pages (page id i at index i + 1);
\* unfull: the retained descriptors.
RamPageCache_new == [ram |-> << >>, disk |-> << >>, unfull |-> {}]

\* store_block(block) -> PageId: a fresh page in the cache, block at slot 0
store_block(c, block) ==
    [cache |-> [c EXCEPT !.ram = Append(@, Some([EmptyPage EXCEPT ![BlockId_first + 1] = block]))],
     page_id |-> Len(c.ram)]

store_in_place(c, page_id, block_id, block) ==
    [c EXCEPT !.ram[page_id + 1][1][block_id + 1] = block]

\* flush_page(page_id) -> PageId: persist a full page, return its backing id
flush_page(c, page_id) ==
    [cache |-> [c EXCEPT !.disk = Append(@, Unwrap(c.ram[page_id + 1])),
                         !.ram[page_id + 1] = None],
     page_id |-> Len(c.disk)]

\* flush_unfull(page_id, next_block_id) -> UnfullPage
flush_unfull(c, page_id, block_id) ==
    LET up == [page_id |-> Len(c.disk), from |-> BlockId_first, to |-> block_id]
    IN  [cache |-> [c EXCEPT !.disk = Append(@, Unwrap(c.ram[page_id + 1])),
                             !.ram[page_id + 1] = None,
                             !.unfull = @ \cup {up}],
         unfull_page |-> up]

\* delete_unfull(page_id): drops the descriptor, leaves the page bytes
delete_unfull(c, page_id) ==
    [c EXCEPT !.unfull = {u \in @ : u.page_id # page_id}]

get_block(c, page_id, block_id) == c.disk[page_id + 1][block_id + 1]

\* BlockIter::new(cache, pages): the blocks of the full pages, then the blocks
\* [from, to) of the unfull page
RECURSIVE FullBlocks(_, _, _)
FullBlocks(c, full, i) ==
    IF i > Len(full) THEN << >>
    ELSE c.disk[full[i] + 1] \o FullBlocks(c, full, i + 1)

BlockIter_new(c, pages) ==
    FullBlocks(c, pages.full, 1) \o
    (IF IsSome(pages.unfull)
     THEN SubSeq(c.disk[Unwrap(pages.unfull).page_id + 1],
                 Unwrap(pages.unfull).from + 1, Unwrap(pages.unfull).to)
     ELSE << >>)

-----------------------------------------------------------------------------
(* index/posting: the PostingDecoder of a Listing *)

\* PostingDecoder::new(block_iter, biases, size)
PostingDecoder_new(block_iter, biases, size) ==
    [blocks |-> block_iter, biases |-> biases, len |-> size,
     blk |-> 0, posting_buffer |-> RingBuffer_new, count |-> 0]

\* next(): refill the buffer from the next block, biased by that block's bias
PostingDecoder_next(d) ==
    IF d.count >= d.len THEN [item |-> None, d |-> d]
    ELSE (CHOOSE v \in {(CHOOSE v \in {IF IsSome(p.element)
                     THEN [item |-> p.element,
                           d |-> [d1 EXCEPT !.posting_buffer = p.rb, !.count = @ + 1]]
                     ELSE [item |-> None, d |-> d1] :
                     p \in {pop_front(d1.posting_buffer)}} : TRUE) :
               d1 \in {IF is_empty(d.posting_buffer) /\ d.blk < Len(d.blocks)
                          /\ d.blk < Len(d.biases)
                       THEN [d EXCEPT !.posting_buffer =
                                          decompress(d.blocks[d.blk + 1],
                                                     set_base(@, d.biases[d.blk + 1])),
                                      !.blk = @ + 1]
                       ELSE d}} : TRUE)

\* at most n calls of next(), stopping after the first None.  (The loops over a
\* decoder are unfolded by halves: next() yields at most len - count postings, so
\* len - count + 1 calls always reach the None that ends the loop.)
RECURSIVE take(_, _)
take(d, n) ==
    IF n <= 1
    THEN (CHOOSE v \in {[items |-> r.item, d |-> r.d, more |-> IsSome(r.item)] :
               r \in {PostingDecoder_next(d)}} : TRUE)
    ELSE (CHOOSE v \in {IF ~left.more THEN left
               ELSE (CHOOSE v \in {[items |-> left.items \o right.items, d |-> right.d,
                           more |-> right.more] :
                          right \in {take(left.d, n - (n \div 2))}} : TRUE) :
               left \in {take(d, n \div 2)}} : TRUE)

\* .collect::<Vec<_>>(): next() until None
collect(d) == take(d, d.len - d.count + 1)

\* doc_id_offset: binary search of the biases for the largest bias <= doc_id
RECURSIVE bias_search(_, _, _, _)
bias_search(biases, doc_id, lo, hi) ==
    \* invariant: every index below lo holds a bias <= doc_id, every index from hi a larger one
    IF lo >= hi THEN lo
    ELSE LET mid == (lo + hi) \div 2
         IN  IF ~U32Less(doc_id, biases[mid + 1])
             THEN bias_search(biases, doc_id, mid + 1, hi)
             ELSE bias_search(biases, doc_id, lo, mid)

doc_id_offset(d, doc_id) ==
    (CHOOSE v \in {IF n = 0 THEN 0 ELSE n - 1 :
          n \in {bias_search(d.biases, doc_id, 0, Len(d.biases))}} : TRUE)

\* "loop { let v = try_option!(self.next()); if v >= *other { return Some(v) } }",
\* at most n turns of it
RECURSIVE seek_loop(_, _, _)
seek_loop(d, other, n) ==
    IF n <= 1
    THEN (CHOOSE v \in {[item |-> r.item, d |-> r.d,
                returned |-> ~IsSome(r.item) \/ ~U32Less(Unwrap(r.item), other)] :
               r \in {PostingDecoder_next(d)}} : TRUE)
    ELSE (CHOOSE v \in {IF left.returned THEN left
               ELSE seek_loop(left.d, other, n - (n \div 2)) :
               left \in {seek_loop(d, other, n \div 2)}} : TRUE)

\* next_seek(other)
PostingDecoder_next_seek(d, other) ==
    (CHOOSE v \in {seek_loop(d1, other, d1.len - d1.count + 1) :
          d1 \in {[d EXCEPT !.blk = doc_id_offset(d, other),
                            !.posting_buffer = [@ EXCEPT !.start = 0, !.count = 0]]}} : TRUE)

-----------------------------------------------------------------------------
(* index/listing.rs: the Listing.  A state s is [l |-> listing, c |-> cache]. *)

Listing_new ==
    [pages |-> Pages_new,
     current_page |-> None,
     block_biases |-> << >>,
     block_counter |-> BlockId_first,
     block_start |-> 0,
     block_end |-> 0,
     posting_buffer |-> RingBuffer_new,
     size |-> 0]

Listing_len(l) == l.size

\* the first part of ship: the block goes to a new page or into the current one
ship_store(s, block) ==
    IF s.l.block_counter = BlockId_first
    THEN (CHOOSE v \in {[c |-> r.cache, current_page |-> Some(r.page_id)] :
               r \in {store_block(s.c, block)}} : TRUE)
    ELSE [c |-> store_in_place(s.c, Unwrap(s.l.current_page), s.l.block_counter, block),
          current_page |-> s.l.current_page]

\* ship without its flush: the page stays in the cache
ship_flush_skipped(s, stored) ==
    [c |-> stored.c, pages |-> s.l.pages, current_page |-> stored.current_page]

\* ship_flush keeping current_page after the flush
ship_flush_keeps_page(s, stored) ==
    IF s.l.block_counter = BlockId_last
    THEN (CHOOSE v \in {[c |-> r.cache, pages |-> Pages_push(s.l.pages, r.page_id),
                current_page |-> stored.current_page] :
               r \in {flush_page(stored.c, Unwrap(stored.current_page))}} : TRUE)
    ELSE [c |-> stored.c, pages |-> s.l.pages, current_page |-> stored.current_page]

\* the second part of ship: the last block of a page flushes it
ship_flush(s, stored) ==
    IF s.l.block_counter = BlockId_last
    THEN (CHOOSE v \in {[c |-> r.cache, pages |-> Pages_push(s.l.pages, r.page_id),
                current_page |-> None] :
               r \in {flush_page(stored.c, Unwrap(stored.current_page))}} : TRUE)
    ELSE [c |-> stored.c, pages |-> s.l.pages, current_page |-> stored.current_page]

\* the block_start ship leaves: the next buffered posting, or block_end
next_block_start(l) ==
    IF IsSome(peek_front(l.posting_buffer))
    THEN Unwrap(peek_front(l.posting_buffer))
    ELSE l.block_end

\* ship without its last statement: the buffer keeps the base of the block before
ship_keeps_base(s, block) ==
    (CHOOSE v \in {[l |-> [s.l EXCEPT !.pages = flushed.pages,
                             !.current_page = flushed.current_page,
                             !.block_biases = Append(@, s.l.block_start),
                             !.block_counter = BlockId_inc(@),
                             !.block_start = next_block_start(s.l)],
           c |-> flushed.c] :
          flushed \in {ship_flush(s, stored) : stored \in {ship_store(s, block)}}} : TRUE)

ship(s, block) ==
    (CHOOSE v \in {[l |-> [s.l EXCEPT !.pages = flushed.pages,
                             !.current_page = flushed.current_page,
                             !.block_biases = Append(@, s.l.block_start),
                             !.block_counter = BlockId_inc(@),
                             !.block_start = next_block_start(s.l),
                             !.posting_buffer = set_base(@, next_block_start(s.l))],
           c |-> flushed.c] :
          flushed \in {ship_flush(s, stored) : stored \in {ship_store(s, block)}}} : TRUE)

RECURSIVE ship_full_blocks(_)
\* "while let Some(block) = compress(&mut self.posting_buffer) { self.ship(block) }"
ship_full_blocks(s) ==
    (CHOOSE v \in {IF IsSome(r.block)
          THEN (CHOOSE v \in {ship_full_blocks(s1) :
                     s1 \in {ship([s EXCEPT !.l.posting_buffer = r.rb], Unwrap(r.block))}} : TRUE)
          ELSE s : r \in {compress(s.l.posting_buffer)}} : TRUE)

\* compress_and_ship forcing a block out of an empty buffer too
compress_and_ship_empty(s, force) ==
    (CHOOSE v \in {IF force
          THEN (CHOOSE v \in {ship([s1 EXCEPT !.l.posting_buffer = r.rb], r.block) :
                     r \in {force_compress(s1.l.posting_buffer)}} : TRUE)
          ELSE s1 : s1 \in {ship_full_blocks(s)}} : TRUE)

compress_and_ship(s, force) ==
    (CHOOSE v \in {IF force /\ s1.l.posting_buffer.count > 0
          THEN (CHOOSE v \in {ship([s1 EXCEPT !.l.posting_buffer = r.rb], r.block) :
                     r \in {force_compress(s1.l.posting_buffer)}} : TRUE)
          ELSE s1 : s1 \in {ship_full_blocks(s)}} : TRUE)

\* the body of add's loop for the posting at index i of the slice
add_posting(s, posting, i) ==
    IF ~is_empty(s.l.posting_buffer) /\ s.l.block_end = posting
    THEN s
    ELSE IF i % SHIP_EVERY = 0
         THEN (CHOOSE v \in {compress_and_ship(s1, FALSE) :
                    s1 \in {[s EXCEPT !.l.size = @ + 1,
                                     !.l.block_end = posting,
                                     !.l.posting_buffer = push_back(@, posting)]}} : TRUE)
         ELSE [s EXCEPT !.l.size = @ + 1,
                        !.l.block_end = posting,
                        !.l.posting_buffer = push_back(@, posting)]

RECURSIVE add_range(_, _, _, _)
\* "for (i, posting) in postings.iter().enumerate()", indices lo..hi (0-based),
\* unfolded by halves
add_range(s, postings, lo, hi) ==
    IF lo > hi THEN s
    ELSE IF lo = hi THEN add_posting(s, postings[lo + 1], lo)
    ELSE (CHOOSE v \in {add_range(left, postings, ((lo + hi) \div 2) + 1, hi) :
               left \in {add_range(s, postings, lo, (lo + hi) \div 2)}} : TRUE)

RECURSIVE add(_, _)
unravel_unfull(s) ==
    IF IsSome(s.l.pages.unfull)
    THEN (CHOOSE v \in {(CHOOSE v \in {[s2 EXCEPT !.c = delete_unfull(@, Unwrap(s.l.pages.unfull).page_id)] :
                     s2 \in {add([s EXCEPT !.l.pages = take_unfull(@),
                                           !.l.posting_buffer =
                                               set_base(@, s.l.block_biases[first_bias + 1]),
                                           !.l.block_counter = BlockId_first],
                                 collect(PostingDecoder_new(
                                     BlockIter_new(s.c, [full |-> << >>,
                                                         unfull |-> s.l.pages.unfull]),
                                     SubSeq(s.l.block_biases, first_bias + 1,
                                            Len(s.l.block_biases)),
                                     s.l.size)).items)}} : TRUE) :
               \* the index in block_biases of the first of the page's block_count biases
               first_bias \in {Len(s.l.block_biases) -
                                 (Unwrap(s.l.pages.unfull).to - Unwrap(s.l.pages.unfull).from)}} : TRUE)
    ELSE s

\* add without its first statement: an unfull page is left where it is
add_without_unravel(s, postings) ==
    (CHOOSE v \in {compress_and_ship(s1, FALSE) :
          s1 \in {add_range(s, postings, 0, Len(postings) - 1)}} : TRUE)

add(s, postings) ==
    (CHOOSE v \in {(CHOOSE v \in {compress_and_ship(s1, FALSE) :
                s1 \in {add_range(s0, postings, 0, Len(postings) - 1)}} : TRUE) :
          s0 \in {IF IsSome(s.l.pages.unfull) THEN unravel_unfull(s) ELSE s}} : TRUE)

\* commit that ships full blocks only: the postings short of a block stay buffered
commit_unforced(s) ==
    (CHOOSE v \in {IF IsSome(s1.l.current_page)
          THEN (CHOOSE v \in {[l |-> [s1.l EXCEPT !.current_page = None,
                                         !.pages = add_unfull(@, r.unfull_page),
                                         !.block_counter = BlockId_first],
                      c |-> r.cache] :
                     r \in {flush_unfull(s1.c, Unwrap(s1.l.current_page),
                                         s1.l.block_counter)}} : TRUE)
          ELSE s1 : s1 \in {compress_and_ship(s, FALSE)}} : TRUE)

commit(s) ==
    (CHOOSE v \in {IF IsSome(s1.l.current_page)
          THEN (CHOOSE v \in {[l |-> [s1.l EXCEPT !.current_page = None,
                                         !.pages = add_unfull(@, r.unfull_page),
                                         !.block_counter = BlockId_first],
                      c |-> r.cache] :
                     r \in {flush_unfull(s1.c, Unwrap(s1.l.current_page),
                                         s1.l.block_counter)}} : TRUE)
          ELSE s1 : s1 \in {compress_and_ship(s, TRUE)}} : TRUE)

posting_decoder(l, c) ==
    PostingDecoder_new(BlockIter_new(c, l.pages), l.block_biases, l.size)

-----------------------------------------------------------------------------
(* index/boolean_index: postings, maps and the listing storage *)

\* posting.rs: Posting(DocId, Positions)
Posting_new(doc_id, positions) == [doc_id |-> doc_id, positions |-> positions]

Range(seq) == {seq[i] : i \in 1..Len(seq)}

\* the elements of a finite set of integers, ascending
RECURSIVE SortedSeq(_)
SortedSeq(S) ==
    IF S = {} THEN << >>
    ELSE (CHOOSE v \in {<<m>> \o SortedSeq(S \ {m}) :
               m \in {x \in S : \A y \in S : x <= y}} : TRUE)

\* BTreeMap<K, V>: a function on the set of its keys
BTreeMap_new == [k \in {} |-> 0]
BTreeMap_insert(m, key, value) ==
    [k \in (DOMAIN m) \cup {key} |-> IF k = key THEN value ELSE m[k]]
BTreeMap_get(m, key) == IF key \in DOMAIN m THEN Some(m[key]) ELSE None
BTreeMap_len(m) == Cardinality(DOMAIN m)

-----------------------------------------------------------------------------
(* Bytes, the vbyte codec and the byte encodings of the stored items.  A byte   *)
(* string is a sequence over 0..255; a position in it is counted from 0.         *)

RECURSIVE vbyte_encode(_)
\* base 128, least significant group first, the high bit set on the last byte
vbyte_encode(n) ==
    IF n < 128 THEN <<n + 128>> ELSE <<n % 128>> \o vbyte_encode(n \div 128)

RECURSIVE VByteDecoder_scan(_, _, _, _)
\* the bytes of one integer from pos on: acc is the value of the groups read so
\* far and unit the weight of the next group
VByteDecoder_scan(bytes, pos, acc, unit) ==
    IF pos >= Len(bytes) THEN [value |-> None, pos |-> pos]
    ELSE IF bytes[pos + 1] >= 128
         THEN [value |-> Some(acc + (bytes[pos + 1] - 128) * unit), pos |-> pos + 1]
         ELSE VByteDecoder_scan(bytes, pos + 1, acc + bytes[pos + 1] * unit, unit * 128)

\* VByteDecoder::next on the bytes from pos on: Some(integer) and the position
\* behind it, or None when the bytes end before the integer does
VByteDecoder_next(bytes, pos) == VByteDecoder_scan(bytes, pos, 0, 1)

RECURSIVE LeBytes(_, _)
\* transmute::<_, [u8; width]>: the little-endian bytes of n
LeBytes(n, width) ==
    IF width = 0 THEN << >> ELSE <<n % 256>> \o LeBytes(n \div 256, width - 1)

RECURSIVE FromLe(_)
FromLe(bytes) == IF bytes = << >> THEN 0 ELSE Head(bytes) + 256 * FromLe(Tail(bytes))

\* read_u64: the first 8 bytes (fewer are padded with zeros) as a little-endian u64
read_u64(barry) == FromLe(SubSeq(barry, 1, IF Len(barry) < 8 THEN Len(barry) ELSE 8))

\* ByteEncodable / ByteDecodable for usize
usize_encode(n) == LeBytes(n, 8)
usize_decode(bytes) == read_u64(bytes)

RECURSIVE encode_deltas(_, _)
\* the values of an ascending sequence, each as the vbyte of its distance from
\* the one before it (from last for the first)
encode_deltas(values, last) ==
    IF values = << >> THEN << >>
    ELSE vbyte_encode(Head(values) - last) \o encode_deltas(Tail(values), Head(values))

\* one posting of a listing: delta doc id, number of positions, position deltas
Posting_encode(posting, last_doc_id) ==
    vbyte_encode(posting.doc_id - last_doc_id)
        \o vbyte_encode(Len(posting.positions))
        \o encode_deltas(posting.positions, 0)

RECURSIVE Listing_encode_from(_, _)
Listing_encode_from(postings, last_doc_id) ==
    IF postings = << >> THEN << >>
    ELSE Posting_encode(Head(postings), last_doc_id)
             \o Listing_encode_from(Tail(postings), Head(postings).doc_id)

\* ByteEncodable for Listing: the vbyte stream posting::PostingDecoder reads
Listing_encode(postings) == Listing_encode_from(postings, 0)

RECURSIVE decode_positions(_, _, _, _, _)
\* "for _ in 0..positions_len": remaining turns are left, None when the decoder
\* runs out of bytes (try_option!)
decode_positions(bytes, pos, remaining, last_position, positions) ==
    IF remaining = 0 THEN [value |-> Some(positions), pos |-> pos]
    ELSE (CHOOSE v \in {IF IsSome(d.value)
               THEN decode_positions(bytes, d.pos, remaining - 1,
                                     last_position + Unwrap(d.value),
                                     Append(positions, last_position + Unwrap(d.value)))
               ELSE [value |-> None, pos |-> d.pos] :
               d \in {VByteDecoder_next(bytes, pos)}} : TRUE)

\* posting::PostingDecoder::next on the bytes from pos on: [item |-> None or
\* Some(posting), pos |-> the position behind what was read]
posting_PostingDecoder_next(bytes, pos, last_doc_id) ==
    (CHOOSE v \in {IF ~IsSome(delta_doc_id.value) THEN [item |-> None, pos |-> delta_doc_id.pos]
          ELSE (CHOOSE v \in {IF ~IsSome(positions_len.value)
                     THEN [item |-> None, pos |-> positions_len.pos]
                     ELSE (CHOOSE v \in {IF ~IsSome(positions.value)
                                THEN [item |-> None, pos |-> positions.pos]
                                ELSE [item |-> Some(Posting_new(
                                                   last_doc_id + Unwrap(delta_doc_id.value),
                                                   Unwrap(positions.value))),
                                      pos |-> positions.pos] :
                                positions \in {decode_positions(bytes, positions_len.pos,
                                                   Unwrap(positions_len.value), 0, << >>)}} : TRUE) :
                     positions_len \in {VByteDecoder_next(bytes, delta_doc_id.pos)}} : TRUE) :
          delta_doc_id \in {VByteDecoder_next(bytes, pos)}} : TRUE)

RECURSIVE Listing_decode_from(_, _, _, _)
Listing_decode_from(bytes, pos, last_doc_id, postings) ==
    (CHOOSE v \in {IF IsSome(p.item)
          THEN Listing_decode_from(bytes, p.pos, Unwrap(p.item).doc_id,
                                   Append(postings, Unwrap(p.item)))
          ELSE postings :
          p \in {posting_PostingDecoder_next(bytes, pos, last_doc_id)}} : TRUE)

\* ByteDecodable for Listing: the postings posting::PostingDecoder yields
Listing_decode(bytes) == Listing_decode_from(bytes, 0, 0, << >>)

-----------------------------------------------------------------------------
(* index/storage/fs_storage.rs.  An FsStorage is                                 *)
(*   [kind |-> "FsStorage", item_type |-> the TItem of PhantomData<TItem>,        *)
(*    entries |-> id -> [offset, length], current_offset,                         *)
(*    entries_bin |-> the bytes of the file behind persistent_entries,           *)
(*    data_bin |-> the bytes of the file behind data,                             *)
(*    cursor |-> the position of the open file description of data: File::try_clone *)
(*               duplicates the descriptor, and the duplicate shares the position, *)
(*    append |-> data was opened with append(true): every write goes to the end]  *)

\* TItem::encode and TItem::decode of an FsStorage<TItem>
Item_encode(item_type, data) ==
    IF item_type = "usize" THEN usize_encode(data) ELSE Listing_encode(data)
Item_decode(item_type, bytes) ==
    IF item_type = "usize" THEN usize_decode(bytes) ELSE Listing_decode(bytes)

\* FsStorage::new(path): both files are created or truncated
FsStorage_new(item_type) ==
    [kind |-> "FsStorage", item_type |-> item_type,
     entries |-> BTreeMap_new, current_offset |-> 0,
     entries_bin |-> << >>, data_bin |-> << >>, cursor |-> 0, append |-> FALSE]

encode_entry(id, offset, length) ==
    vbyte_encode(id) \o vbyte_encode(offset) \o vbyte_encode(length)

\* decode_entry at pos: None as soon as one of the three integers is missing
decode_entry(bytes, pos) ==
    (CHOOSE v \in {IF id.value = None THEN [entry |-> None, pos |-> id.pos]
          ELSE (CHOOSE v \in {IF offset.value = None THEN [entry |-> None, pos |-> offset.pos]
                     ELSE (CHOOSE v \in {IF length.value = None
                                THEN [entry |-> None, pos |-> length.pos]
                                ELSE [entry |-> Some(<<Unwrap(id.value), Unwrap(offset.value),
                                                       Unwrap(length.value)>>),
                                      pos |-> length.pos] :
                                length \in {VByteDecoder_next(bytes, offset.pos)}} : TRUE) :
                     offset \in {VByteDecoder_next(bytes, id.pos)}} : TRUE) :
          id \in {VByteDecoder_next(bytes, pos)}} : TRUE)

RECURSIVE decode_entries(_, _, _)
\* "while let Some(entry) = decode_entry(&mut decoder) { entries.insert(..) }"
decode_entries(bytes, pos, entries) ==
    (CHOOSE v \in {IF d.entry = None THEN entries
          ELSE decode_entries(bytes, d.pos,
                              BTreeMap_insert(entries, Unwrap(d.entry)[1],
                                              [offset |-> Unwrap(d.entry)[2],
                                               length |-> Unwrap(d.entry)[3]])) :
          d \in {decode_entry(bytes, pos)}} : TRUE)

\* FsStorage::from_folder(path), on the two files as a storage left them
from_folder(files) ==
    [kind |-> "FsStorage", item_type |-> files.item_type,
     entries |-> decode_entries(files.entries_bin, 0, BTreeMap_new),
     current_offset |-> Len(files.data_bin),
     entries_bin |-> files.entries_bin, data_bin |-> files.data_bin,
     cursor |-> 0, append |-> TRUE]

\* File::write_all at pos: the bytes replace what the file holds from pos on
\* and lengthen it where they reach beyond its end
WriteAt(file, pos, bytes) ==
    SubSeq(file, 1, pos) \o bytes \o SubSeq(file, pos + Len(bytes) + 1, Len(file))

\* FsStorage::store
FsStorage_store(s, id, data) ==
    (CHOOSE v \in {[s EXCEPT
              !.data_bin = WriteAt(@, at, bytes),
              !.cursor = at + Len(bytes),
              !.entries = BTreeMap_insert(@, id, [offset |-> s.current_offset,
                                                  length |-> Len(bytes)]),
              !.entries_bin = @ \o encode_entry(id, s.current_offset, Len(bytes)),
              !.current_offset = @ + Len(bytes)] :
          bytes \in {Item_encode(s.item_type, data)},
          at \in {IF s.append THEN Len(s.data_bin) ELSE s.cursor}} : TRUE)

Ok(value) == [kind |-> "Ok", value |-> value]
Err(error) == [kind |-> "Err", value |-> error]
\* an unwrap of an Err: the call does not return
Panicked == [kind |-> "panic", value |-> "unwrap"]

\* FsStorage::get: the result, and the storage with the position the seek and
\* the read left behind
FsStorage_get(s, id) ==
    IF IsSome(BTreeMap_get(s.entries, id))
    THEN (CHOOSE v \in {IF e.offset + e.length <= Len(s.data_bin)
               THEN [result |-> Ok(Item_decode(s.item_type,
                                               SubSeq(s.data_bin, e.offset + 1,
                                                      e.offset + e.length))),
                     s |-> [s EXCEPT !.cursor = e.offset + e.length]]
               ELSE [result |-> Panicked,
                     s |-> [s EXCEPT !.cursor = IF e.offset < Len(s.data_bin)
                                                THEN Len(s.data_bin) ELSE e.offset]] :
               e \in {Unwrap(BTreeMap_get(s.entries, id))}} : TRUE)
    ELSE [result |-> Err("KeyNotFound"), s |-> s]

-----------------------------------------------------------------------------
(* The Storage trait and its implementations behind Box<Storage<Listing>> *)

\* Storage<Listing>, the in-memory implementation: a map from id to item
RamStorage_new == [kind |-> "RamStorage", items |-> BTreeMap_new]

\* Storage::store through the Box: the storage after the call
Storage_store(storage, id, data) ==
    IF storage.kind = "RamStorage"
    THEN [storage EXCEPT !.items = BTreeMap_insert(@, id, data)]
    ELSE FsStorage_store(storage, id, data)

\* Storage::get through the Box, as [result |-> Ok(item), Err(KeyNotFound) or
\* the panic of an unwrap inside get, s |-> the storage after the call]
Storage_get_result(storage, id) ==
    IF storage.kind = "RamStorage"
    THEN [result |-> IF IsSome(BTreeMap_get(storage.items, id))
                     THEN Ok(Unwrap(BTreeMap_get(storage.items, id)))
                     ELSE Err("KeyNotFound"),
          s |-> storage]
    ELSE FsStorage_get(storage, id)

\* the item of Storage::get: Some(item) of Ok(item), None otherwise
Storage_get(storage, id) ==
    (CHOOSE v \in {IF g.result.kind = "Ok" THEN Some(g.result.value) ELSE None :
          g \in {Storage_get_result(storage, id)}} : TRUE)

\* slice::binary_search_by on a vector sorted by key: Ok(index of the match) or
\* Err(index where the key keeps the vector sorted), indices 0-based
binary_search(keys, key) ==
    IF \E i \in 1..Len(keys) : keys[i] = key
    THEN [ok |-> TRUE, index |-> (CHOOSE i \in 1..Len(keys) : keys[i] = key) - 1]
    ELSE [ok |-> FALSE, index |-> Cardinality({i \in 1..Len(keys) : keys[i] < key})]

\* Vec::insert(index, element)
Vec_insert(vec, at, element) ==
    SubSeq(vec, 1, at) \o <<element>> \o SubSeq(vec, at + 1, Len(vec))

-----------------------------------------------------------------------------
(* index/boolean_index/mod.rs: index_documents.  A state st of the loops is   *)
(* [ix |-> the index, inv_index |-> the temporary BTreeMap<u64, Vec<Posting>>] *)

DocIdsOf(postings) == Tuple([i \in 1..Len(postings) |-> postings[i].doc_id])

\* index_seen_term keeping only the first position of a term in a document
index_seen_term_first_position(st, term_id, new_doc_id, term_position) ==
    (CHOOSE v \in {IF found.ok
          THEN st
          ELSE [st EXCEPT !.inv_index[term_id] =
                              Vec_insert(@, found.index,
                                         Posting_new(new_doc_id, <<term_position>>))] :
          found \in {binary_search(DocIdsOf(st.inv_index[term_id]), new_doc_id)}} : TRUE)

\* the term was seen before: add the document or the position to its listing
index_seen_term(st, term_id, new_doc_id, term_position) ==
    (CHOOSE v \in {IF found.ok
          THEN (CHOOSE v \in {IF slot.ok THEN st
                     ELSE [st EXCEPT !.inv_index[term_id][found.index + 1].positions =
                                         Vec_insert(@, slot.index, term_position)] :
                     slot \in {binary_search(st.inv_index[term_id][found.index + 1].positions,
                                           term_position)}} : TRUE)
          ELSE [st EXCEPT !.inv_index[term_id] =
                              Vec_insert(@, found.index,
                                         Posting_new(new_doc_id, <<term_position>>))] :
          found \in {binary_search(DocIdsOf(st.inv_index[term_id]), new_doc_id)}} : TRUE)

\* the body of "for (term_position, term) in document.into_iter().enumerate()"
index_term(st, new_doc_id, term_position, term) ==
    IF IsSome(BTreeMap_get(st.ix.term_ids, term))
    THEN index_seen_term(st, Unwrap(BTreeMap_get(st.ix.term_ids, term)),
                         new_doc_id, term_position)
    ELSE [st EXCEPT !.ix.term_ids = BTreeMap_insert(@, term, BTreeMap_len(st.ix.term_ids)),
                    !.inv_index = BTreeMap_insert(@, BTreeMap_len(st.ix.term_ids),
                                      <<Posting_new(new_doc_id, <<term_position>>)>>)]

RECURSIVE index_terms(_, _, _, _)
\* the terms of one document from position term_position on
index_terms(st, new_doc_id, document, term_position) ==
    IF term_position >= Len(document) THEN st
    ELSE (CHOOSE v \in {index_terms(st1, new_doc_id, document, term_position + 1) :
               st1 \in {index_term(st, new_doc_id, term_position,
                                   document[term_position + 1])}} : TRUE)

RECURSIVE index_collection(_, _, _)
\* "for document in documents", from the k-th document on: the document gets the
\* id document_count, which is then counted up
index_collection(st, docs, k) ==
    IF k > Len(docs) THEN st
    ELSE (CHOOSE v \in {index_collection([st1 EXCEPT !.ix.document_count = @ + 1], docs, k + 1) :
               st1 \in {index_terms(st, st.ix.document_count, docs[k], 0)}} : TRUE)

RECURSIVE store_listings(_, _, _)
\* "for (term_id, listing) in inv_index { self.postings.store(term_id, listing) }":
\* a BTreeMap is walked in ascending key order
store_listings(postings, inv_index, keys) ==
    IF keys = << >> THEN postings
    ELSE store_listings(Storage_store(postings, Head(keys), inv_index[Head(keys)]),
                        inv_index, Tail(keys))

index_documents(ix, docs) ==
    (CHOOSE v \in {[st.ix EXCEPT !.postings =
                              store_listings(@, st.inv_index, SortedSeq(DOMAIN st.inv_index))] :
          st \in {index_collection([ix |-> ix, inv_index |-> BTreeMap_new], docs, 1)}} : TRUE)

\* BooleanIndex::new(storage, documents)
BooleanIndex_new(storage, docs) ==
    index_documents([document_count |-> 0, term_ids |-> BTreeMap_new, postings |-> storage],
                    docs)

-----------------------------------------------------------------------------
(* index/boolean_index/boolean_query: the query AST *)

QueryAtom_new(relative_position, query_term) ==
    [relative_position |-> relative_position, query_term |-> query_term]
Atom(atom) == [kind |-> "Atom", atom |-> atom]
NAry(operator, operands) == [kind |-> "NAry", operator |-> operator, operands |-> operands]
Positional(operator, operands) ==
    [kind |-> "Positional", operator |-> operator, operands |-> operands]
Filter(operator, sand, sieve) ==
    [kind |-> "Filter", operator |-> operator, sand |-> sand, sieve |-> sieve]

-----------------------------------------------------------------------------
(* index/boolean_index/query_result_iterator: the iterators behind a query.   *)
(* Every operation returns [item |-> None or Some(posting), it |-> the        *)
(* iterator after the call].                                                  *)

QueryResultIterator_Empty == [kind |-> "Empty"]
QueryResultIterator_Atom(relative_position, postings) ==
    [kind |-> "Atom", relative_position |-> relative_position, listing |-> postings, ptr |-> 0]
NAryQueryIterator_new(operator, operands) ==
    [kind |-> "NAry", operator |-> operator, operands |-> operands]
NAryQueryIterator_new_positional(operator, operands) ==
    [kind |-> "NAry", operator |-> operator, operands |-> operands]
FilterIterator_new(operator, sand, sieve) ==
    [kind |-> "Filter", operator |-> operator, sand |-> sand, sieve |-> sieve,
     sieve_head |-> None]

RECURSIVE QueryResultIterator_next(_)
RECURSIVE QueryResultIterator_next_seek(_, _)

\* next_seek(target): next() until the posting's doc id is >= target
QueryResultIterator_next_seek(it, target) ==
    (CHOOSE v \in {IF IsSome(r.item) /\ Unwrap(r.item).doc_id < target
          THEN QueryResultIterator_next_seek(r.it, target)
          ELSE r : r \in {QueryResultIterator_next(it)}} : TRUE)

\* Atom: the postings of the term's listing, front to back
atom_next(it) ==
    IF it.ptr < Len(it.listing)
    THEN [item |-> Some(it.listing[it.ptr + 1]), it |-> [it EXCEPT !.ptr = @ + 1]]
    ELSE [item |-> None, it |-> it]

\* next() of every child
next_of_each(operands) ==
    Tuple([i \in 1..Len(operands) |-> QueryResultIterator_next(operands[i])])

HeadDocIds(heads) == {Unwrap(heads[i].item).doc_id : i \in 1..Len(heads)}
MaxOf(S) == CHOOSE x \in S : \A y \in S : y <= x
MinOf(S) == CHOOSE x \in S : \A y \in S : x <= y

RECURSIVE leapfrog(_)
\* heads[i] is what child i returned last.  Advance the minimum child to meet
\* the maximum via next_seek until all children agree; stop when a child is exhausted.
leapfrog(heads) ==
    IF \E i \in 1..Len(heads) : ~IsSome(heads[i].item)
    THEN [agree |-> FALSE, heads |-> heads]
    ELSE IF Cardinality(HeadDocIds(heads)) = 1
         THEN [agree |-> TRUE, heads |-> heads]
         ELSE (CHOOSE v \in {leapfrog([heads EXCEPT ![lowest] =
                                          QueryResultIterator_next_seek(
                                              @.it, MaxOf(HeadDocIds(heads)))]) :
                    lowest \in {CHOOSE i \in 1..Len(heads) :
                                   Unwrap(heads[i].item).doc_id = MinOf(HeadDocIds(heads))}} : TRUE)

ChildrenOf(heads) == Tuple([i \in 1..Len(heads) |-> heads[i].it])

\* AND(children): the postings whose doc id every child yields
and_next(it) ==
    (CHOOSE v \in {[item |-> IF met.agree THEN met.heads[1].item ELSE None,
            it |-> [it EXCEPT !.operands = ChildrenOf(met.heads)]] :
          met \in {leapfrog(next_of_each(it.operands))}} : TRUE)

\* the positions of every head with the doc id doc_id, merged ascending
MergedPositions(heads, doc_id) ==
    SortedSeq(UNION {Range(Unwrap(heads[i].item).positions) :
                        i \in {i \in 1..Len(heads) : IsSome(heads[i].item)
                                                      /\ Unwrap(heads[i].item).doc_id = doc_id}})

\* OR(children): the minimum doc id among the children's next postings; the
\* children that hold it advance, the others keep theirs
or_next(it) ==
    (CHOOSE v \in {IF \A i \in 1..Len(heads) : ~IsSome(heads[i].item)
          THEN [item |-> None, it |-> it]
          ELSE (CHOOSE v \in {[item |-> Some(Posting_new(least, MergedPositions(heads, least))),
                      it |-> [it EXCEPT !.operands =
                                 Tuple([i \in 1..Len(heads) |->
                                     IF IsSome(heads[i].item)
                                        /\ Unwrap(heads[i].item).doc_id = least
                                     THEN heads[i].it ELSE it.operands[i]])]] :
                     least \in {MinOf({Unwrap(heads[i].item).doc_id :
                                    i \in {i \in 1..Len(heads) : IsSome(heads[i].item)}})}} : TRUE) :
          heads \in {next_of_each(it.operands)}} : TRUE)

\* the values pos - relative_pos that every atom's posting holds
AlignedPositions(heads, operands) ==
    {base \in {pos - operands[1].relative_position :
                  pos \in Range(Unwrap(heads[1].item).positions)} :
        \A i \in 1..Len(heads) :
            base + operands[i].relative_position \in Range(Unwrap(heads[i].item).positions)}

RECURSIVE inorder_next(_)
\* InOrder(atoms): an AND over the atoms' doc ids, then the positional check
inorder_next(it) ==
    (CHOOSE v \in {IF ~met.agree
          THEN [item |-> None, it |-> [it EXCEPT !.operands = ChildrenOf(met.heads)]]
          ELSE IF AlignedPositions(met.heads, it.operands) # {}
               THEN [item |-> Some(Posting_new(Unwrap(met.heads[1].item).doc_id,
                                       SortedSeq(AlignedPositions(met.heads, it.operands)))),
                     it |-> [it EXCEPT !.operands = ChildrenOf(met.heads)]]
               ELSE inorder_next([it EXCEPT !.operands = ChildrenOf(met.heads)]) :
          met \in {leapfrog(next_of_each(it.operands))}} : TRUE)

\* the sieve's posting to compare a sand posting with: the one held from the last
\* seek when it is not behind, else sieve.next_seek(sand_doc)
sieve_at(it, sand_doc) ==
    IF IsSome(it.sieve_head) /\ Unwrap(it.sieve_head).doc_id >= sand_doc
    THEN [item |-> it.sieve_head, it |-> it.sieve]
    ELSE QueryResultIterator_next_seek(it.sieve, sand_doc)

RECURSIVE not_next(_)
\* NOT(sand, sieve): the postings of sand whose doc id the sieve does not yield
not_next(it) ==
    (CHOOSE v \in {IF ~IsSome(s.item)
          THEN [item |-> None, it |-> [it EXCEPT !.sand = s.it]]
          ELSE (CHOOSE v \in {IF IsSome(h.item)
                        /\ Unwrap(h.item).doc_id = Unwrap(s.item).doc_id
                     THEN not_next([it EXCEPT !.sand = s.it, !.sieve = h.it,
                                              !.sieve_head = h.item])
                     ELSE [item |-> s.item,
                           it |-> [it EXCEPT !.sand = s.it, !.sieve = h.it,
                                             !.sieve_head = h.item]] :
                     h \in {sieve_at(it, Unwrap(s.item).doc_id)}} : TRUE) :
          s \in {QueryResultIterator_next(it.sand)}} : TRUE)

QueryResultIterator_next(it) ==
    CASE it.kind = "Empty" -> [item |-> None, it |-> it]
      [] it.kind = "Atom" -> atom_next(it)
      [] it.kind = "NAry" /\ it.operator = "And" -> and_next(it)
      [] it.kind = "NAry" /\ it.operator = "Or" -> or_next(it)
      [] it.kind = "NAry" /\ it.operator = "InOrder" -> inorder_next(it)
      [] it.kind = "Filter" -> not_next(it)

RECURSIVE QueryResultIterator_collect(_)
\* the doc ids of the postings next() yields until None
QueryResultIterator_collect(it) ==
    (CHOOSE v \in {IF IsSome(r.item)
          THEN <<Unwrap(r.item).doc_id>> \o QueryResultIterator_collect(r.it)
          ELSE << >> : r \in {QueryResultIterator_next(it)}} : TRUE)

-----------------------------------------------------------------------------
(* index/boolean_index/mod.rs: query dispatch *)

\* run_atom reading the listing of term id 0 whatever the term's id is
run_atom_first_listing(ix, relative_position, atom) ==
    IF IsSome(BTreeMap_get(ix.term_ids, atom))
    THEN QueryResultIterator_Atom(relative_position, Unwrap(Storage_get(ix.postings, 0)))
    ELSE QueryResultIterator_Empty

run_atom(ix, relative_position, atom) ==
    IF IsSome(BTreeMap_get(ix.term_ids, atom))
    THEN QueryResultIterator_Atom(
             relative_position,
             Unwrap(Storage_get(ix.postings, Unwrap(BTreeMap_get(ix.term_ids, atom)))))
    ELSE QueryResultIterator_Empty

RECURSIVE run_query(_, _)

\* run_nary_query building an OR whatever the operator is
run_nary_query_as_or(ix, operator, operands) ==
    NAryQueryIterator_new(
        "Or", Tuple([i \in 1..Len(operands) |-> run_query(ix, operands[i])]))

\* run_nary_query leaving out the last of several operands
run_nary_query_short(ix, operator, operands) ==
    NAryQueryIterator_new(
        operator,
        Tuple([i \in 1..(IF Len(operands) > 1 THEN Len(operands) - 1 ELSE Len(operands)) |->
                  run_query(ix, operands[i])]))

run_nary_query(ix, operator, operands) ==
    NAryQueryIterator_new(
        operator, Tuple([i \in 1..Len(operands) |-> run_query(ix, operands[i])]))

\* run_positional_query handing every atom the relative position 0
run_positional_query_unaligned(ix, operator, operands) ==
    NAryQueryIterator_new_positional(
        operator,
        Tuple([i \in 1..Len(operands) |-> run_atom(ix, 0, operands[i].query_term)]))

run_positional_query(ix, operator, operands) ==
    NAryQueryIterator_new_positional(
        operator,
        Tuple([i \in 1..Len(operands) |->
                  run_atom(ix, operands[i].relative_position, operands[i].query_term)]))

\* run_filter with sand and sieve exchanged
run_filter_swapped(ix, operator, sand, sieve) ==
    FilterIterator_new(operator, run_query(ix, sieve), run_query(ix, sand))

run_filter(ix, operator, sand, sieve) ==
    FilterIterator_new(operator, run_query(ix, sand), run_query(ix, sieve))

run_query(ix, q) ==
    CASE q.kind = "Atom" -> run_atom(ix, q.atom.relative_position, q.atom.query_term)
      [] q.kind = "NAry" -> run_nary_query(ix, q.operator, q.operands)
      [] q.kind = "Positional" -> run_positional_query(ix, q.operator, q.operands)
      [] q.kind = "Filter" -> run_filter(ix, q.operator, q.sand, q.sieve)

execute_query(ix, q) == run_query(ix, q)

-----------------------------------------------------------------------------
(* The inputs of the exploration *)

\* the step between the doc ids of one slice
DocStep == 2
\* slice shapes: len postings, the first one gap above the last posting added
\* so far (gap 0 repeats it)
SmallShapes == {[len |-> 1, gap |-> 0], [len |-> 1, gap |-> 3],
                [len |-> BlockPostings, gap |-> 3], [len |-> BlockPostings + 1, gap |-> 3]}
\* one block short of a page, in one call: only drawn for a fresh listing
LongShape == [len |-> (PAGESIZE - 1) * BlockPostings, gap |-> 3]

LastAdded == IF added = << >> THEN 0 ELSE added[Len(added)]
Slice(shape) == Tuple([i \in 1..shape.len |-> LastAdded + shape.gap + DocStep * (i - 1)])

\* the entries of calls
AddOf(len) == [op |-> "add", len |-> len]
CommitCall == [op |-> "commit", len |-> 0]
LastCallIsCommit == calls # << >> /\ calls[Len(calls)] = CommitCall

-----------------------------------------------------------------------------
(* Part 1: the listing, its cache and its decoder *)

InitListing ==
    /\ listing = Listing_new
    /\ cache = RamPageCache_new
    /\ decoder = None
    /\ added = << >>
    /\ calls = << >>

InitQueryIdle ==
    /\ index = None
    /\ documents = << >>
    /\ query = None
    /\ result = << >>

InitSharedIdle == shared = << >>

InitNoCall == pending = << >>

InitUnitsIdle ==
    /\ ring = << >> /\ fs = << >> /\ folder = << >> /\ chunk = << >>
    /\ serial = << >> /\ voc = << >> /\ fault = << >>

Init == InitListing /\ InitQueryIdle /\ InitSharedIdle /\ InitNoCall /\ InitUnitsIdle

\* listing.add(&slice, &mut cache)
AddCall(shape, limit) ==
    /\ decoder = None
    /\ Len(calls) < limit
    /\ Len(added) + shape.len <= MaxPostings
    /\ \E s \in {add([l |-> listing, c |-> cache], Slice(shape))} :
            listing' = s.l /\ cache' = s.c
    /\ added' = added \o Slice(shape)
    /\ calls' = Append(calls, AddOf(shape.len))
    /\ UNCHANGED <<decoder, index, documents, query, result, shared, pending, uvars>>

Add(limit) == \E shape \in SmallShapes : AddCall(shape, limit)

AddLong(limit) == added = << >> /\ calls = << >> /\ AddCall(LongShape, limit)

\* listing.commit(&mut cache)
Commit(limit) ==
    /\ decoder = None
    /\ Len(calls) < limit
    /\ \E s \in {commit([l |-> listing, c |-> cache])} :
            listing' = s.l /\ cache' = s.c
    /\ calls' = Append(calls, CommitCall)
    /\ UNCHANGED <<decoder, added, index, documents, query, result, shared, pending, uvars>>

\* the decoder borrows block_biases, size and the cache from the listing
Attach(dv) ==
    [blocks |-> BlockIter_new(cache, listing.pages), biases |-> listing.block_biases,
     len |-> listing.size, blk |-> dv.blk, posting_buffer |-> dv.posting_buffer,
     count |-> dv.count]

\* yielded, sought and reads are history: the postings the decoder returned, the
\* target of its last next_seek, and the blocks it decoded, in order
Detach(d, yielded, sought, reads) ==
    [blk |-> d.blk, posting_buffer |-> d.posting_buffer, count |-> d.count,
     yielded |-> yielded, sought |-> sought, reads |-> reads, done |-> FALSE]

\* the blocks a call decoded: it left the decoder at block d.blk and began at
\* block first (every block in between was handed to decompress)
BlocksRead(first, d) == Tuple([k \in 1..(d.blk - first) |-> first + k - 1])

\* let decoder = listing.posting_decoder(&cache), on a committed listing
NewDecoder ==
    /\ decoder = None
    /\ LastCallIsCommit
    /\ decoder' = Some(Detach(posting_decoder(listing, cache), << >>, None, << >>))
    /\ UNCHANGED <<listing, cache, added, calls, index, documents, query, result, shared, pending, uvars>>

\* decoder.next()
DecoderNext ==
    /\ IsSome(decoder)
    /\ ~Unwrap(decoder).done
    /\ Len(Unwrap(decoder).yielded) < MaxNexts
    /\ \E r \in {PostingDecoder_next(Attach(Unwrap(decoder)))} :
            decoder' = Some([Detach(r.d, Unwrap(decoder).yielded \o r.item,
                                    Unwrap(decoder).sought,
                                    Unwrap(decoder).reads
                                        \o BlocksRead(Unwrap(decoder).blk, r.d))
                                EXCEPT !.done = ~IsSome(r.item)])
    /\ UNCHANGED <<listing, cache, added, calls, index, documents, query, result, shared, pending, uvars>>

\* decoder.collect::<Vec<_>>()
DecoderCollect ==
    /\ IsSome(decoder)
    /\ ~Unwrap(decoder).done
    /\ \E r \in {collect(Attach(Unwrap(decoder)))} :
            decoder' = Some([Detach(r.d, Unwrap(decoder).yielded \o r.items,
                                    Unwrap(decoder).sought,
                                    Unwrap(decoder).reads
                                        \o BlocksRead(Unwrap(decoder).blk, r.d))
                                EXCEPT !.done = TRUE])
    /\ UNCHANGED <<listing, cache, added, calls, index, documents, query, result, shared, pending, uvars>>

\* the doc ids sought: around the block biases and the ends of the listing
SeekTargets ==
    LET n == Len(listing.block_biases)
        near == {listing.block_biases[k] : k \in {k \in 1..n : k > n - 2}}
    IN  {t \in near \cup {b + 1 : b \in near} \cup {b - 1 : b \in near}
               \cup {LastAdded, LastAdded + 1} : t >= 0}

\* decoder.next_seek(target), on a decoder just made
DecoderNextSeek ==
    /\ IsSome(decoder)
    /\ ~Unwrap(decoder).done
    /\ Unwrap(decoder).sought = None
    /\ Unwrap(decoder).yielded = << >>
    /\ \E target \in SeekTargets :
         \E r \in {PostingDecoder_next_seek(Attach(Unwrap(decoder)), target)} :
             decoder' = Some([Detach(r.d, r.item, Some(target),
                                     BlocksRead(doc_id_offset(Attach(Unwrap(decoder)), target),
                                                r.d))
                                 EXCEPT !.done = ~IsSome(r.item)])
    /\ UNCHANGED <<listing, cache, added, calls, index, documents, query, result, shared, pending, uvars>>

\* the decoder goes out of scope
DropDecoder ==
    /\ IsSome(decoder)
    /\ decoder' = None
    /\ UNCHANGED <<listing, cache, added, calls, index, documents, query, result, shared, pending, uvars>>

Next ==
    \/ Add(MaxCalls)
    \/ AddLong(MaxCalls)
    \/ Commit(MaxCalls)
    \/ NewDecoder
    \/ DecoderNext
    \/ DecoderCollect
    \/ DropDecoder

Spec == Init /\ [][Next]_vars

NextSeek ==
    \/ Add(MaxSeekCalls)
    \/ AddLong(MaxSeekCalls)
    \/ Commit(MaxSeekCalls)
    \/ NewDecoder
    \/ DecoderNextSeek
    \/ DecoderNext
    \/ DecoderCollect
    \/ DropDecoder

SpecSeek == Init /\ [][NextSeek]_vars

-----------------------------------------------------------------------------
(* A decoder that is sought several times, with targets that do not decrease *)

\* the next_seek calls on one decoder
MaxSeeks == 3

\* decoder.next_seek(target) again, with a target that is not below the last one.
\* (A call that returned None can be followed by another: next_seek positions
\* the decoder anew.)
DecoderSeekAgain ==
    /\ IsSome(decoder)
    /\ IsSome(Unwrap(decoder).sought)
    /\ Len(Unwrap(decoder).yielded) < MaxSeeks
    /\ \E target \in {t \in SeekTargets : t >= Unwrap(Unwrap(decoder).sought)} :
         \E r \in {PostingDecoder_next_seek(Attach(Unwrap(decoder)), target)} :
             decoder' = Some([Detach(r.d,
                                     Unwrap(decoder).yielded
                                         \o (IF IsSome(r.item) THEN r.item ELSE <<DocIdNone>>),
                                     Some(target),
                                     Unwrap(decoder).reads
                                         \o BlocksRead(doc_id_offset(Attach(Unwrap(decoder)),
                                                                     target), r.d))
                                 EXCEPT !.done = ~IsSome(r.item)])
    /\ UNCHANGED <<listing, cache, added, calls, index, documents, query, result, shared, pending, uvars>>

NextSeeks ==
    \/ Add(MaxSeekCalls)
    \/ Commit(MaxSeekCalls)
    \/ NewDecoder
    \/ DecoderNextSeek
    \/ DecoderSeekAgain
    \/ DropDecoder

SpecSeeks == Init /\ [][NextSeeks]_vars

-----------------------------------------------------------------------------
(* Several Listings that write through one RamPageCache, as in             *)
(* tests::multiple_listings: the calls come from one writer, one at a time *)

\* the listings that share the cache
MaxListings == 2
\* the add and commit calls of one behaviour, over all the listings
MaxSharedCalls == 6

\* the slices handed to a listing of the shared cache
SharedShapes == {[len |-> 1, gap |-> 3], [len |-> BlockPostings, gap |-> 3]}

\* shape, laid out above the last posting of history
SliceAfter(history, shape) ==
    Tuple([i \in 1..shape.len |->
              (IF history = << >> THEN 0 ELSE history[Len(history)])
                  + shape.gap + DocStep * (i - 1)])

SharedCalls == LET RECURSIVE Sum(_)
                   Sum(k) == IF k = 0 THEN 0 ELSE Len(shared[k].calls) + Sum(k - 1)
               IN  Sum(Len(shared))

\* let mut listings = (0..n).map(|_| Listing::new()).collect::<Vec<_>>()
InitShared ==
    /\ InitListing /\ InitQueryIdle /\ InitNoCall /\ InitUnitsIdle
    /\ shared = Tuple([i \in 1..MaxListings |->
                          [l |-> Listing_new, added |-> << >>, calls |-> << >>]])

\* listings[i].add(&slice, &mut cache)
SharedAdd ==
    /\ SharedCalls < MaxSharedCalls
    /\ \E i \in 1..Len(shared), shape \in SharedShapes :
         \E slice \in {SliceAfter(shared[i].added, shape)} :
           \E s \in {add([l |-> shared[i].l, c |-> cache], slice)} :
             /\ shared' = [shared EXCEPT ![i] = [l |-> s.l,
                                                 added |-> @.added \o slice,
                                                 calls |-> Append(@.calls, AddOf(shape.len))]]
             /\ cache' = s.c
    /\ UNCHANGED <<listing, decoder, added, calls, index, documents, query, result, pending, uvars>>

\* listings[i].commit(&mut cache)
SharedCommit ==
    /\ SharedCalls < MaxSharedCalls
    /\ \E i \in 1..Len(shared) :
         \E s \in {commit([l |-> shared[i].l, c |-> cache])} :
           /\ shared' = [shared EXCEPT ![i] = [l |-> s.l, added |-> @.added,
                                               calls |-> Append(@.calls, CommitCall)]]
           /\ cache' = s.c
    /\ UNCHANGED <<listing, decoder, added, calls, index, documents, query, result, pending, uvars>>

NextShared ==
    \/ SharedAdd
    \/ SharedCommit

SpecShared == InitShared /\ [][NextShared]_vars

-----------------------------------------------------------------------------
(* Listing::add one loop turn at a time.  pending is the stack of the add   *)
(* calls in progress: the call of the writer and, above it, the call        *)
(* unravel_unfull makes with the postings of the unfull page.  A frame is   *)
(* [postings, i, delete, entry]: the slice, the index of the next turn of   *)
(* the loop, the unfull page unravel_unfull deletes when the call returns   *)
(* (None for the writer's call) and, as history, the state at entry.        *)

\* the add and commit calls of one behaviour
MaxStepCalls == 3

\* unravel_unfull up to its call of add: the unfull page is taken off pages, the
\* buffer gets the base of the page's first block, the page's postings are
\* decoded and block_counter is reset
unravel_unfull_postings(s) ==
    (CHOOSE v \in {[s |-> [s EXCEPT !.l.pages = take_unfull(@),
                                    !.l.posting_buffer =
                                        set_base(@, s.l.block_biases[first_bias + 1]),
                                    !.l.block_counter = BlockId_first],
            postings |-> collect(PostingDecoder_new(
                             BlockIter_new(s.c, [full |-> << >>, unfull |-> s.l.pages.unfull]),
                             SubSeq(s.l.block_biases, first_bias + 1, Len(s.l.block_biases)),
                             s.l.size)).items,
            page_id |-> Unwrap(s.l.pages.unfull).page_id] :
          first_bias \in {Len(s.l.block_biases) -
                            (Unwrap(s.l.pages.unfull).to - Unwrap(s.l.pages.unfull).from)}} : TRUE)

\* slice shapes: as above, and every repeat-th posting (repeat > 0) has the doc
\* id of the one before it
StepShapes ==
    {[len |-> 1, gap |-> 3, repeat |-> 0],
     [len |-> 3, gap |-> 3, repeat |-> 0],
     [len |-> BlockPostings, gap |-> 3, repeat |-> 0],
     [len |-> 4, gap |-> 3, repeat |-> 2],
     [len |-> SIZE + (SIZE \div SHIP_EVERY) + 1, gap |-> 3, repeat |-> SHIP_EVERY]}

StepSlice(shape) ==
    Tuple([i \in 1..shape.len |->
              LastAdded + shape.gap
                  + DocStep * ((i - 1) - (IF shape.repeat = 0 THEN 0
                                          ELSE (i - 1) \div shape.repeat))])

Frame(postings, delete, entry) ==
    [postings |-> postings, i |-> 0, delete |-> delete, entry |-> entry]
Top == pending[Len(pending)]

\* listing.add(&slice, &mut cache) is entered: lines 44-46 of add
AddBegin ==
    /\ pending = << >>
    /\ decoder = None
    /\ Len(calls) < MaxStepCalls
    /\ \E shape \in StepShapes :
         \E s \in {[l |-> listing, c |-> cache]} :
           IF IsSome(listing.pages.unfull)
           THEN \E u \in {unravel_unfull_postings(s)} :
                  /\ listing' = u.s.l
                  /\ cache' = u.s.c
                  /\ pending' = <<Frame(StepSlice(shape), None, s),
                                  Frame(u.postings, Some(u.page_id), u.s)>>
           ELSE /\ pending' = <<Frame(StepSlice(shape), None, s)>>
                /\ UNCHANGED <<listing, cache>>
    /\ UNCHANGED <<decoder, added, calls, index, documents, query, result, shared, uvars>>

\* one turn of "for (i, posting) in postings.iter().enumerate()"
AddStep ==
    /\ pending # << >>
    /\ Top.i < Len(Top.postings)
    /\ \E s \in {add_posting([l |-> listing, c |-> cache], Top.postings[Top.i + 1], Top.i)} :
         listing' = s.l /\ cache' = s.c
    /\ pending' = [pending EXCEPT ![Len(pending)].i = @ + 1]
    /\ UNCHANGED <<decoder, added, calls, index, documents, query, result, shared, uvars>>

\* the loop is over: line 64 of add, and the call returns (to unravel_unfull,
\* which deletes the unfull page, or to the writer)
AddEnd ==
    /\ pending # << >>
    /\ Top.i = Len(Top.postings)
    /\ \E s \in {compress_and_ship([l |-> listing, c |-> cache], FALSE)} :
         /\ listing' = s.l
         /\ cache' = IF IsSome(Top.delete) THEN delete_unfull(s.c, Unwrap(Top.delete)) ELSE s.c
    /\ pending' = SubSeq(pending, 1, Len(pending) - 1)
    /\ IF Len(pending) = 1
       THEN /\ added' = added \o Top.postings
            /\ calls' = Append(calls, AddOf(Len(Top.postings)))
       ELSE UNCHANGED <<added, calls>>
    /\ UNCHANGED <<decoder, index, documents, query, result, shared, uvars>>

\* listing.commit(&mut cache), between two calls of add
StepCommit == pending = << >> /\ Commit(MaxStepCalls)

NextSteps ==
    \/ AddBegin
    \/ AddStep
    \/ AddEnd
    \/ StepCommit

SpecSteps == Init /\ [][NextSteps]_vars

-----------------------------------------------------------------------------
(* Part 2: an index built from a document collection, and one query on it *)

\* the documents of a collection
MaxDocs == 3
\* the relative positions of query atoms
MaxRelPos == 1

\* a document is the sequence of its terms
Documents == {<< >>, <<2, 1>>, <<1, 0, 1>>, <<0, 1, 2>>}
SeqsOf(S, lo, hi) == UNION {[1..k -> S] : k \in lo..hi}
Collections == SeqsOf(Documents, 0, MaxDocs)

BoolTerms == {0, 1, 2}
\* a term no document holds
AbsentTerm == 3
BoolAtoms == {Atom(QueryAtom_new(0, t)) : t \in BoolTerms}
AtomQueries ==
    {Atom(QueryAtom_new(rp, t)) : rp \in 0..MaxRelPos, t \in BoolTerms \cup {AbsentTerm}}
BoolOperators == {"And", "Or"}
FlatQueries == {NAry(op, ops) : op \in BoolOperators, ops \in SeqsOf(BoolAtoms, 1, 3)}
InnerQueries ==
    {NAry(op, <<a, b>>) : op \in BoolOperators, a \in BoolAtoms, b \in BoolAtoms}
        \cup {f \in {Filter("Not", a, b) : a \in BoolAtoms, b \in BoolAtoms} :
                 f.sand # f.sieve}
NestedQueries ==
    {NAry(op, ops) : op \in BoolOperators,
                     ops \in UNION {{<<inner, a>>, <<a, inner>>} :
                                       inner \in InnerQueries, a \in BoolAtoms}}
PosAtoms == {QueryAtom_new(rp, t) : rp \in 0..MaxRelPos, t \in {0, 1}}
PositionalQueries == {Positional("InOrder", ops) : ops \in SeqsOf(PosAtoms, 1, 3)}
FilterOperands ==
    BoolAtoms
        \cup {NAry(op, <<Atom(QueryAtom_new(0, t[1])), Atom(QueryAtom_new(0, t[2]))>>) :
                 op \in BoolOperators, t \in {<<0, 1>>, <<0, 2>>, <<1, 2>>}}
        \cup {Positional("InOrder", <<QueryAtom_new(0, 1), QueryAtom_new(1, 0)>>),
              Filter("Not", Atom(QueryAtom_new(0, 0)), Atom(QueryAtom_new(0, 1)))}
FilterQueries == {Filter("Not", sand, sieve) : sand \in FilterOperands, sieve \in FilterOperands}
Queries ==
    AtomQueries \cup FlatQueries \cup NestedQueries \cup PositionalQueries \cup FilterQueries

\* let index = BooleanIndex::new(RamStorage::new(), documents)
BooleanIndexNew ==
    /\ index = None
    /\ \E docs \in Collections :
         /\ index' = Some(BooleanIndex_new(RamStorage_new, docs))
         /\ documents' = docs
    /\ UNCHANGED <<listing, cache, decoder, added, calls, query, result, shared, pending, uvars>>

\* index.execute_query(&q).collect::<Vec<_>>().  The index is not changed by a
\* query, so a behaviour runs one.
ExecuteQuery ==
    /\ IsSome(index)
    /\ query = None
    /\ \E q \in Queries :
         /\ query' = Some(q)
         /\ result' = QueryResultIterator_collect(execute_query(Unwrap(index), q))
    /\ UNCHANGED <<listing, cache, decoder, added, calls, index, documents, shared, pending, uvars>>

NextQuery ==
    \/ BooleanIndexNew
    \/ ExecuteQuery

SpecQuery == Init /\ [][NextQuery]_vars

-----------------------------------------------------------------------------
(* Specification SpecRing: one RingBuffer driven through its operations, next to *)
(* the queue it is meant to be.  ring is                                         *)
(*   [rb |-> the buffer, fifo |-> the reference queue, pushes, flushes |-> the     *)
(*    calls made, last |-> the last call: what it returned, what the reference   *)
(*    queue returns, and whether it left the buffer as it was]                    *)

\* the push_back calls of a behaviour: enough for start to pass the array's end
MaxPushes == 66
\* the flush calls of a behaviour
MaxFlushes == 1

Call(op, returned, expected, unchanged) ==
    [op |-> op, returned |-> returned, expected |-> expected, unchanged |-> unchanged]

\* the head of the reference queue, as an Option
Front(fifo) == IF fifo = << >> THEN None ELSE Some(Head(fifo))

\* let mut buffer = RingBuffer::new()
InitRing ==
    /\ InitListing /\ InitQueryIdle /\ InitSharedIdle /\ InitNoCall
    /\ ring = [rb |-> RingBuffer_new, fifo |-> << >>, pushes |-> 0, flushes |-> 0,
               last |-> Call("new", None, None, TRUE)]
    /\ fs = << >> /\ folder = << >> /\ chunk = << >>
    /\ serial = << >> /\ voc = << >> /\ fault = << >>

\* buffer.push_back(element): the elements are numbered in push order
RingPush ==
    /\ ring.pushes < MaxPushes
    /\ count(ring.rb) < SIZE
    /\ ring' = [ring EXCEPT !.rb = push_back(@, ring.pushes + 1),
                            !.fifo = Append(@, ring.pushes + 1),
                            !.pushes = @ + 1,
                            !.last = Call("push_back", None, None, FALSE)]
    /\ UNCHANGED <<lvars, qvars, shared, pending, fs, folder, chunk, serial, voc, fault>>

\* buffer.pop_front()
RingPop ==
    /\ \E p \in {pop_front(ring.rb)} :
         ring' = [ring EXCEPT !.rb = p.rb,
                              !.fifo = IF @ = << >> THEN @ ELSE Tail(@),
                              !.last = Call("pop_front", p.element, Front(ring.fifo),
                                            p.rb = ring.rb)]
    /\ UNCHANGED <<lvars, qvars, shared, pending, fs, folder, chunk, serial, voc, fault>>

\* buffer.peek_front(), which borrows the buffer immutably
RingPeek ==
    /\ ring' = [ring EXCEPT !.last = Call("peek_front", peek_front(ring.rb),
                                          Front(ring.fifo), TRUE)]
    /\ UNCHANGED <<lvars, qvars, shared, pending, fs, folder, chunk, serial, voc, fault>>

\* buffer.flush()
RingFlush ==
    /\ ring.flushes < MaxFlushes
    /\ ring' = [ring EXCEPT !.rb = flush(@),
                            !.fifo = << >>,
                            !.flushes = @ + 1,
                            !.last = Call("flush", None, None, FALSE)]
    /\ UNCHANGED <<lvars, qvars, shared, pending, fs, folder, chunk, serial, voc, fault>>

NextRing ==
    \/ RingPush
    \/ RingPop
    \/ RingPeek
    \/ RingFlush

SpecRing == InitRing /\ [][NextRing]_vars

-----------------------------------------------------------------------------
(* Specification SpecBiased: one BiasedRingBuffer<Posting>.  ring is             *)
(*   [rb |-> the buffer with its base, fifo |-> for every queued element the     *)
(*    posting that was pushed and the base it was pushed under, calls |-> the     *)
(*    number of calls made, last |-> the last call: its argument, what it        *)
(*    returned, and the queued elements before it]                               *)

\* the calls of a behaviour
MaxBiasedCalls == 6

\* doc ids of the postings pushed, and the bases set
BiasedPostings == {1, 5}
Bases == {0, 2, 7}

BiasedCall(op, arg, returned, before) ==
    [op |-> op, arg |-> arg, returned |-> returned, before |-> before]

\* let mut buffer = BiasedRingBuffer::<Posting>::new()
InitBiased ==
    /\ InitListing /\ InitQueryIdle /\ InitSharedIdle /\ InitNoCall
    /\ ring = [rb |-> RingBuffer_new, fifo |-> << >>, calls |-> 0,
               last |-> BiasedCall("new", None, None, << >>)]
    /\ fs = << >> /\ folder = << >> /\ chunk = << >>
    /\ serial = << >> /\ voc = << >> /\ fault = << >>

\* buffer.push_back_biased(Posting(DocId(p)))
BiasedPush ==
    /\ ring.calls < MaxBiasedCalls
    /\ \E p \in BiasedPostings :
         ring' = [ring EXCEPT !.rb = push_back_biased(@, p),
                              !.fifo = Append(@, [posting |-> p, base |-> ring.rb.base]),
                              !.calls = @ + 1,
                              !.last = BiasedCall("push_back_biased", Some(p), None,
                                                  Queue(ring.rb))]
    /\ UNCHANGED <<lvars, qvars, shared, pending, fs, folder, chunk, serial, voc, fault>>

\* buffer.pop_front_biased()
BiasedPop ==
    /\ ring.calls < MaxBiasedCalls
    /\ \E p \in {pop_front_biased(ring.rb)} :
         ring' = [ring EXCEPT !.rb = p.rb,
                              !.fifo = IF @ = << >> THEN @ ELSE Tail(@),
                              !.calls = @ + 1,
                              !.last = BiasedCall("pop_front_biased",
                                                  IF ring.fifo = << >> THEN None
                                                  ELSE Some(Head(ring.fifo)),
                                                  p.element, Queue(ring.rb))]
    /\ UNCHANGED <<lvars, qvars, shared, pending, fs, folder, chunk, serial, voc, fault>>

\* buffer.set_base(Posting(DocId(base)))
BiasedSetBase ==
    /\ ring.calls < MaxBiasedCalls
    /\ \E base \in Bases \ {ring.rb.base} :
         ring' = [ring EXCEPT !.rb = set_base(@, base),
                              !.calls = @ + 1,
                              !.last = BiasedCall("set_base", Some(base), None,
                                                  Queue(ring.rb))]
    /\ UNCHANGED <<lvars, qvars, shared, pending, fs, folder, chunk, serial, voc, fault>>

NextBiased ==
    \/ BiasedPush
    \/ BiasedPop
    \/ BiasedSetBase

SpecBiased == InitBiased /\ [][NextBiased]_vars

-----------------------------------------------------------------------------
(* Specification SpecCodec: NaiveCompressor on one BiasedRingBuffer<Posting>.    *)
(* ring is                                                                       *)
(*   [rb |-> the buffer, pushes, codec_calls |-> the calls made,                 *)
(*    block |-> None or the last block produced: its words, the postings that    *)
(*              were drained into it, the base and whether it was forced,        *)
(*    last |-> the last call: the buffer before it and what it returned]          *)

\* the push_back calls of a behaviour: more than a block's worth
MaxCodecPushes == 18
\* the compress, force_compress and decompress calls of a behaviour
MaxCodecCalls == 2
\* the first pushes of a behaviour, which may carry the doc id 0xFFFFFFFF
MaxSentinels == 2

\* the base of the buffer, set before the first posting
CodecBases == {2}

CodecCall(op, before, returned) == [op |-> op, before |-> before, returned |-> returned]

Produced(words, drained, base, forced) ==
    [words |-> words, drained |-> drained, base |-> base, forced |-> forced]

\* the first n elements of a sequence, or all of it
FirstN(seq, n) == SubSeq(seq, 1, IF n < Len(seq) THEN n ELSE Len(seq))
\* the elements after the first n
AfterN(seq, n) == SubSeq(seq, n + 1, Len(seq))

InitCodec ==
    /\ InitListing /\ InitQueryIdle /\ InitSharedIdle /\ InitNoCall
    /\ ring = [rb |-> RingBuffer_new, pushes |-> 0, codec_calls |-> 0,
               block |-> None, last |-> CodecCall("new", RingBuffer_new, None)]
    /\ fs = << >> /\ folder = << >> /\ chunk = << >>
    /\ serial = << >> /\ voc = << >> /\ fault = << >>

\* buffer.set_base(Posting(DocId(base))), before anything is queued
CodecSetBase ==
    /\ ring.last.op = "new"
    /\ \E base \in CodecBases :
         ring' = [ring EXCEPT !.rb = set_base(@, base),
                              !.last = CodecCall("set_base", ring.rb, None)]
    /\ UNCHANGED <<lvars, qvars, shared, pending, fs, folder, chunk, serial, voc, fault>>

\* buffer.push_back(Posting(DocId(d))): the next doc id in ascending order, or the
\* doc id 0xFFFFFFFF
CodecPush ==
    /\ ring.pushes < MaxCodecPushes
    /\ count(ring.rb) < SIZE
    /\ \E d \in {ring.pushes + 3} \cup (IF ring.pushes < MaxSentinels
                                        THEN {DocIdNone} ELSE {}) :
         ring' = [ring EXCEPT !.rb = push_back(@, d),
                              !.pushes = @ + 1,
                              !.last = CodecCall("push_back", ring.rb, None)]
    /\ UNCHANGED <<lvars, qvars, shared, pending, fs, folder, chunk, serial, voc, fault>>

\* NaiveCompressor::compress(&mut buffer)
CodecCompress ==
    /\ ring.codec_calls < MaxCodecCalls
    /\ \E r \in {compress(ring.rb)} :
         ring' = [ring EXCEPT !.rb = r.rb,
                              !.codec_calls = @ + 1,
                              !.block = IF IsSome(r.block)
                                        THEN Some(Produced(Unwrap(r.block),
                                                           FirstN(Queue(ring.rb), BlockPostings),
                                                           ring.rb.base, FALSE))
                                        ELSE @,
                              !.last = CodecCall("compress", ring.rb, r.block)]
    /\ UNCHANGED <<lvars, qvars, shared, pending, fs, folder, chunk, serial, voc, fault>>

\* NaiveCompressor::force_compress(&mut buffer)
CodecForceCompress ==
    /\ ring.codec_calls < MaxCodecCalls
    /\ \E r \in {force_compress(ring.rb)} :
         ring' = [ring EXCEPT !.rb = r.rb,
                              !.codec_calls = @ + 1,
                              !.block = Some(Produced(r.block,
                                                      FirstN(Queue(ring.rb), BlockPostings),
                                                      ring.rb.base, TRUE)),
                              !.last = CodecCall("force_compress", ring.rb, Some(r.block))]
    /\ UNCHANGED <<lvars, qvars, shared, pending, fs, folder, chunk, serial, voc, fault>>

\* NaiveCompressor::decompress(block, &mut buffer), with the last block produced
CodecDecompress ==
    /\ ring.codec_calls < MaxCodecCalls
    /\ IsSome(ring.block)
    /\ count(ring.rb) + BlockPostings <= SIZE
    /\ ring' = [ring EXCEPT !.rb = decompress(Unwrap(ring.block).words, @),
                            !.codec_calls = @ + 1,
                            !.last = CodecCall("decompress", ring.rb, None)]
    /\ UNCHANGED <<lvars, qvars, shared, pending, fs, folder, chunk, serial, voc, fault>>

NextCodec ==
    \/ CodecSetBase
    \/ CodecPush
    \/ CodecCompress
    \/ CodecForceCompress
    \/ CodecDecompress

SpecCodec == InitCodec /\ [][NextCodec]_vars

-----------------------------------------------------------------------------
(* Specification SpecFs: one folder and the FsStorage<usize> open on it.  fs is  *)
(*   [storage |-> the FsStorage, latest |-> id -> the item last stored under it, *)
(*    calls, reloads |-> the calls made, disturbed |-> a store wrote at a        *)
(*    position other than the end of data.bin,                                    *)
(*    last |-> the last call: its id and what it returned]                        *)

\* the store, get and from_folder calls of a behaviour
MaxFsCalls == 5

FsIds == {0, 1, 2}
FsItems == {15, 300}

FsCall(op, id, res) == [op |-> op, id |-> id, result |-> res]

\* let mut prov = FsStorage::new(path)
InitFs ==
    /\ InitListing /\ InitQueryIdle /\ InitSharedIdle /\ InitNoCall
    /\ ring = << >>
    /\ fs = [storage |-> FsStorage_new("usize"), latest |-> BTreeMap_new,
             calls |-> 0, reloads |-> 0, disturbed |-> FALSE,
             last |-> FsCall("new", 0, Ok(<< >>))]
    /\ folder = << >> /\ chunk = << >>
    /\ serial = << >> /\ voc = << >> /\ fault = << >>

\* the process is alive: no call has panicked since the storage was opened
FsAlive == fs.last.result.kind # "panic"

\* prov.store(id, item)
FsStore ==
    /\ fs.calls < MaxFsCalls
    /\ FsAlive
    /\ \E id \in FsIds, item \in FsItems :
         fs' = [fs EXCEPT !.storage = FsStorage_store(@, id, item),
                          !.latest = BTreeMap_insert(@, id, item),
                          !.calls = @ + 1,
                          !.disturbed = @ \/ (~fs.storage.append
                                              /\ fs.storage.cursor # Len(fs.storage.data_bin)),
                          !.last = FsCall("store", id, Ok(<< >>))]
    /\ UNCHANGED <<lvars, qvars, shared, pending, ring, folder, chunk, serial, voc, fault>>

\* prov.get(id)
FsGet ==
    /\ fs.calls < MaxFsCalls
    /\ FsAlive
    /\ \E id \in FsIds :
         \E g \in {FsStorage_get(fs.storage, id)} :
             fs' = [fs EXCEPT !.storage = g.s,
                              !.calls = @ + 1,
                              !.last = FsCall("get", id, g.result)]
    /\ UNCHANGED <<lvars, qvars, shared, pending, ring, folder, chunk, serial, voc, fault>>

\* the storage is dropped (or its process ended) and the folder is opened anew:
\* let mut prov = FsStorage::from_folder(path)
FsReload ==
    /\ fs.calls < MaxFsCalls
    /\ fs' = [fs EXCEPT !.storage = from_folder(@),
                        !.calls = @ + 1,
                        !.reloads = @ + 1,
                        !.last = FsCall("from_folder", 0, Ok(<< >>))]
    /\ UNCHANGED <<lvars, qvars, shared, pending, ring, folder, chunk, serial, voc, fault>>

NextFs ==
    \/ FsStore
    \/ FsGet
    \/ FsReload

SpecFs == InitFs /\ [][NextFs]_vars

-----------------------------------------------------------------------------
(* index/boolean_index/mod.rs: the persistent index.  The folder behind        *)
(* persist_path holds vocabulary.bin and statistics.bin next to the two files  *)
(* of the FsStorage<Listing>.  Terms are usize.                                 *)

\* TTerm::encode and TTerm::decode for the terms of the vocabulary
Term_encode(term) == usize_encode(term)
Term_decode(bytes) == Ok(usize_decode(bytes))

\* save_vocabulary writing every record with the rank of its term in place of
\* the term's id
RECURSIVE save_vocabulary_ranks(_, _, _)
save_vocabulary_ranks(term_ids, terms, rank) ==
    IF terms = << >> THEN << >>
    ELSE vbyte_encode(rank)
             \o vbyte_encode(Len(Term_encode(Head(terms))))
             \o Term_encode(Head(terms))
             \o save_vocabulary_ranks(term_ids, Tail(terms), rank + 1)

RECURSIVE save_vocabulary_entries(_, _)
\* "for vocab_entry in &self.term_ids": id, term length and term of every entry
\* of terms, appended to the byte buffer
save_vocabulary_entries(term_ids, terms) ==
    IF terms = << >> THEN << >>
    ELSE (CHOOSE v \in {id_bytes \o term_length_bytes \o term_bytes
                            \o save_vocabulary_entries(term_ids, Tail(terms)) :
               term_bytes \in {Term_encode(Head(terms))},
               term_length_bytes \in {vbyte_encode(Len(Term_encode(Head(terms))))},
               id_bytes \in {vbyte_encode(term_ids[Head(terms)])}} : TRUE)

\* save_vocabulary with the ranks of the terms as their ids
save_vocabulary_by_rank(ix) ==
    save_vocabulary_ranks(ix.term_ids, SortedSeq(DOMAIN ix.term_ids), 0)

\* save_vocabulary: the bytes of vocabulary.bin.  A BTreeMap is walked in the
\* order of its keys, the terms.
save_vocabulary(ix) ==
    save_vocabulary_entries(ix.term_ids, SortedSeq(DOMAIN ix.term_ids))

\* Iterator::take(term_len) on the bytes from pos on: at most term_len bytes
Take(bytes, pos, term_len) ==
    SubSeq(bytes, pos + 1, IF pos + term_len < Len(bytes) THEN pos + term_len ELSE Len(bytes))

RECURSIVE load_vocabulary_from(_, _, _)
\* "while let Some(id) = decoder.next()" from pos on, terms being the map so far
load_vocabulary_from(bytes, pos, terms) ==
    (CHOOSE v \in {IF ~IsSome(id.value) THEN Ok(terms)
          ELSE (CHOOSE v \in {IF IsSome(term_len.value)
                     THEN (CHOOSE v \in {IF Term_decode(taken).kind = "Ok"
                                THEN load_vocabulary_from(
                                         bytes, term_len.pos + Len(taken),
                                         BTreeMap_insert(terms, Term_decode(taken).value,
                                                         Unwrap(id.value)))
                                ELSE load_vocabulary_from(bytes, term_len.pos + Len(taken),
                                                          terms) :
                                taken \in {Take(bytes, term_len.pos,
                                                Unwrap(term_len.value))}} : TRUE)
                     ELSE load_vocabulary_from(bytes, term_len.pos, terms) :
                     term_len \in {VByteDecoder_next(bytes, id.pos)}} : TRUE) :
          id \in {VByteDecoder_next(bytes, pos)}} : TRUE)

\* load_vocabulary on the bytes of vocabulary.bin
load_vocabulary(bytes) == load_vocabulary_from(bytes, 0, BTreeMap_new)

\* save_statistics: the bytes of statistics.bin
save_statistics(ix) == vbyte_encode(ix.document_count)

\* load_statistics on the bytes of statistics.bin
load_statistics(bytes) ==
    IF IsSome(VByteDecoder_next(bytes, 0).value)
    THEN Ok(Unwrap(VByteDecoder_next(bytes, 0).value))
    ELSE Err("CorruptedIndexFile")

\* BooleanIndex::new_persistent(storage, documents, path): the index and the
\* two files it saved
new_persistent(storage, docs) ==
    (CHOOSE v \in {[ix |-> ix,
               vocabulary_bin |-> save_vocabulary(ix),
               statistics_bin |-> save_statistics(ix)] :
          ix \in {index_documents([document_count |-> 0, term_ids |-> BTreeMap_new,
                                   postings |-> storage], docs)}} : TRUE)

\* BooleanIndex::from_parts
from_parts(inverted_index, vocabulary, document_count) ==
    [document_count |-> document_count, term_ids |-> vocabulary, postings |-> inverted_index]

\* BooleanIndex::load::<FsStorage<Listing>>(path) on the files of the folder
load(files) ==
    (CHOOSE v \in {IF vocab.kind # "Ok" THEN vocab
          ELSE IF doc_count.kind # "Ok" THEN doc_count
          ELSE Ok(from_parts(storage, vocab.value, doc_count.value)) :
          storage \in {from_folder([item_type |-> "Listing",
                                    entries_bin |-> files.entries_bin,
                                    data_bin |-> files.data_bin])},
          vocab \in {load_vocabulary(files.vocabulary_bin)},
          doc_count \in {load_statistics(files.statistics_bin)}} : TRUE)

\* the storage of the index after run_atom: Storage::get moved the position of
\* its data file
run_atom_storage(ix, atom) ==
    IF IsSome(BTreeMap_get(ix.term_ids, atom))
    THEN Storage_get_result(ix.postings, Unwrap(BTreeMap_get(ix.term_ids, atom))).s
    ELSE ix.postings

-----------------------------------------------------------------------------
(* Specification SpecPersist: an index is built persistently into a folder,    *)
(* queried, dropped and loaded again from the folder, as in tests::persistence. *)
(* Before the load the vocabulary file may lose its end and the statistics     *)
(* file its content.  folder is                                                 *)
(*   [original |-> None or the index that was built, docs |-> its collection,  *)
(*    files |-> the four files, saved |-> vocabulary.bin as it was saved,       *)
(*    loaded |-> None or the result of load, queries |-> the queries run,       *)
(*    last |-> the last call: the index it went to, its query and its answer]   *)

\* the documents of a collection that is built persistently
MaxPersistDocs == 2
\* the atom queries of a behaviour
MaxPersistQueries == 2

PersistCollections == SeqsOf(Documents, 0, MaxPersistDocs)
\* every term of the documents and one that none of them holds
PersistQueries == {Atom(QueryAtom_new(0, t)) : t \in BoolTerms \cup {AbsentTerm}}

PersistCall(op, on, q, answer) == [op |-> op, on |-> on, query |-> q, answer |-> answer]

InitPersist ==
    /\ InitListing /\ InitQueryIdle /\ InitSharedIdle /\ InitNoCall
    /\ ring = << >> /\ fs = << >> /\ chunk = << >>
    /\ serial = << >> /\ voc = << >> /\ fault = << >>
    /\ folder = [original |-> None, docs |-> << >>,
                 files |-> [vocabulary_bin |-> << >>, statistics_bin |-> << >>,
                            entries_bin |-> << >>, data_bin |-> << >>],
                 saved |-> << >>, loaded |-> None, queries |-> 0,
                 last |-> PersistCall("none", "none", None, << >>)]

\* IndexBuilder::<_, FsStorage<_>>::new().persist(path).create_persistent(documents)
PersistCreate ==
    /\ folder.original = None
    /\ \E docs \in PersistCollections :
         \E n \in {new_persistent(FsStorage_new("Listing"), docs)} :
             folder' = [folder EXCEPT
                            !.original = Some(n.ix),
                            !.docs = docs,
                            !.files = [vocabulary_bin |-> n.vocabulary_bin,
                                       statistics_bin |-> n.statistics_bin,
                                       entries_bin |-> n.ix.postings.entries_bin,
                                       data_bin |-> n.ix.postings.data_bin],
                            !.saved = n.vocabulary_bin,
                            !.last = PersistCall("create_persistent", "original", None, << >>)]
    /\ UNCHANGED <<lvars, qvars, shared, pending, ring, fs, chunk, serial, voc, fault>>

\* index.execute_query(&BooleanQuery::Atom(..)).collect::<Vec<_>>() on the index
\* that was built, before it is dropped
PersistQueryOriginal ==
    /\ IsSome(folder.original)
    /\ folder.loaded = None
    /\ folder.queries < MaxPersistQueries
    /\ \E q \in PersistQueries :
         folder' = [folder EXCEPT
                        !.original = Some([Unwrap(folder.original) EXCEPT
                                               !.postings = run_atom_storage(
                                                   Unwrap(folder.original),
                                                   q.atom.query_term)]),
                        !.queries = @ + 1,
                        !.last = PersistCall("execute_query", "original", Some(q),
                                     QueryResultIterator_collect(
                                         execute_query(Unwrap(folder.original), q)))]
    /\ UNCHANGED <<lvars, qvars, shared, pending, ring, fs, chunk, serial, voc, fault>>

\* vocabulary.bin loses its end, or statistics.bin its content, while no index
\* is open on the folder
PersistTruncate ==
    /\ IsSome(folder.original)
    /\ folder.loaded = None
    /\ folder.files.vocabulary_bin = folder.saved
    /\ \/ \E k \in 0..(Len(folder.saved) - 1) :
            folder' = [folder EXCEPT
                           !.files.vocabulary_bin = SubSeq(folder.saved, 1, k),
                           !.last = PersistCall("truncate", "vocabulary.bin", None, << >>)]
       \/ /\ folder.files.statistics_bin # << >>
          /\ folder' = [folder EXCEPT
                            !.files.statistics_bin = << >>,
                            !.last = PersistCall("truncate", "statistics.bin", None, << >>)]
    /\ UNCHANGED <<lvars, qvars, shared, pending, ring, fs, chunk, serial, voc, fault>>

\* IndexBuilder::<_, FsStorage<_>>::new().persist(path).load()
PersistLoad ==
    /\ IsSome(folder.original)
    /\ folder.loaded = None
    /\ folder' = [folder EXCEPT
                      !.loaded = Some(load(folder.files)),
                      !.last = PersistCall("load", "loaded", None, << >>)]
    /\ UNCHANGED <<lvars, qvars, shared, pending, ring, fs, chunk, serial, voc, fault>>

\* an atom query on the index that was loaded
PersistQueryLoaded ==
    /\ IsSome(folder.loaded)
    /\ Unwrap(folder.loaded).kind = "Ok"
    /\ folder.queries < MaxPersistQueries
    /\ \E q \in PersistQueries :
         folder' = [folder EXCEPT
                        !.loaded = Some(Ok([Unwrap(folder.loaded).value EXCEPT
                                                !.postings = run_atom_storage(
                                                    Unwrap(folder.loaded).value,
                                                    q.atom.query_term)])),
                        !.queries = @ + 1,
                        !.last = PersistCall("execute_query", "loaded", Some(q),
                                     QueryResultIterator_collect(
                                         execute_query(Unwrap(folder.loaded).value, q)))]
    /\ UNCHANGED <<lvars, qvars, shared, pending, ring, fs, chunk, serial, voc, fault>>

NextPersist ==
    \/ PersistCreate
    \/ PersistQueryOriginal
    \/ PersistTruncate
    \/ PersistLoad
    \/ PersistQueryLoaded

SpecPersist == InitPersist /\ [][NextPersist]_vars

-----------------------------------------------------------------------------
(* chunked_storage/chunk_ref.rs.  A chunk is a HotIndexingChunk                 *)
(*   [data |-> its CHUNK_SIZE bytes, capacity |-> the bytes still free at the   *)
(*    end of data, last_doc_id, archived_chunks |-> a (doc id, offset, chunk id) *)
(*    for every chunk that filled up and went to the archive]                   *)
(* next to the archive, a Storage<IndexingChunk> it shares with other chunks.   *)
(* c is [hot |-> the chunk, archive |-> the storage].                           *)

\* chunked_storage::SIZE, the bytes of one chunk
CHUNK_SIZE == 3

HotIndexingChunk_new ==
    [data |-> [i \in 1..CHUNK_SIZE |-> 0], capacity |-> CHUNK_SIZE, last_doc_id |-> 0,
     archived_chunks |-> << >>]

\* HotIndexingChunk::add_doc_id
HotIndexingChunk_add_doc_id(hot, doc_id) == [hot EXCEPT !.last_doc_id = doc_id]

\* HotIndexingChunk::get_bytes: the bytes written to the chunk so far
HotIndexingChunk_get_bytes(hot) == SubSeq(hot.data, 1, CHUNK_SIZE - hot.capacity)

\* HotIndexingChunk::archive(at): the full chunk as an IndexingChunk, and the
\* hot chunk empty again with one more archived chunk
HotIndexingChunk_archive(hot, at) ==
    [archived |-> [data |-> hot.data],
     hot |-> [hot EXCEPT !.capacity = CHUNK_SIZE,
                         !.archived_chunks = Append(@, <<hot.last_doc_id, 0, at>>)]]

\* IndexingChunk::get_bytes
IndexingChunk_get_bytes(archived) == archived.data

\* Storage::len
Storage_len(storage) ==
    IF storage.kind = "RamStorage" THEN BTreeMap_len(storage.items)
    ELSE BTreeMap_len(storage.entries)

\* io::Write for &mut [u8] and io::Read for &[u8]: as many bytes as both sides hold
Fits(available, wanted) == IF wanted < available THEN wanted ELSE available

\* io::Write::write for MutChunkRef filling every chunk from its first byte
MutChunkRef_write_from_start(c, buf) ==
    (CHOOSE v \in {[bytes_written |-> bytes_written,
               c |-> IF hot.capacity = 0
                     THEN [hot |-> HotIndexingChunk_archive(hot, Storage_len(c.archive)).hot,
                           archive |-> Storage_store(
                               c.archive, Storage_len(c.archive),
                               HotIndexingChunk_archive(hot, Storage_len(c.archive)).archived)]
                     ELSE [c EXCEPT !.hot = hot]] :
          bytes_written \in {Fits(c.hot.capacity, Len(buf))},
          hot \in {[c.hot EXCEPT
                        !.data = WriteAt(@, 0, SubSeq(buf, 1, Fits(c.hot.capacity, Len(buf)))),
                        !.capacity = @ - Fits(c.hot.capacity, Len(buf))]}} : TRUE)

\* io::Write::write for MutChunkRef: [bytes_written, c |-> the chunk and the
\* archive after the call]
MutChunkRef_write(c, buf) ==
    (CHOOSE v \in {[bytes_written |-> bytes_written,
               c |-> IF hot.capacity = 0
                     THEN [hot |-> HotIndexingChunk_archive(hot, Storage_len(c.archive)).hot,
                           archive |-> Storage_store(
                               c.archive, Storage_len(c.archive),
                               HotIndexingChunk_archive(hot, Storage_len(c.archive)).archived)]
                     ELSE [c EXCEPT !.hot = hot]] :
          bytes_written \in {Fits(c.hot.capacity, Len(buf))},
          hot \in {[c.hot EXCEPT
                        !.data = WriteAt(@, CHUNK_SIZE - c.hot.capacity,
                                         SubSeq(buf, 1, Fits(c.hot.capacity, Len(buf)))),
                        !.capacity = @ - Fits(c.hot.capacity, Len(buf))]}} : TRUE)

RECURSIVE Write_write_all(_, _)
\* io::Write::write_all: write until the buffer is empty
Write_write_all(c, buf) ==
    IF buf = << >> THEN c
    ELSE (CHOOSE v \in {Write_write_all(w.c, SubSeq(buf, w.bytes_written + 1, Len(buf))) :
               w \in {MutChunkRef_write(c, buf)}} : TRUE)

\* MutChunkRef::write_posting
MutChunkRef_write_posting(c, doc_id, buf) ==
    Write_write_all([c EXCEPT !.hot = HotIndexingChunk_add_doc_id(@, doc_id)], buf)

\* ChunkRef::new
ChunkRef_new == [read_ptr |-> 0]

RECURSIVE ChunkRef_read_from(_, _, _, _)
\* the loop of io::Read::read for ChunkRef and the read from the hot chunk
\* behind it: out is buf[..bytes_read], len the length of buf
ChunkRef_read_from(c, read_ptr, out, len) ==
    IF read_ptr \div CHUNK_SIZE < Len(c.hot.archived_chunks)
    THEN (CHOOSE v \in {IF n_read = 0 THEN [bytes |-> out, read_ptr |-> read_ptr]
               ELSE ChunkRef_read_from(c, read_ptr + n_read,
                                       out \o SubSeq(bytes, (read_ptr % CHUNK_SIZE) + 1,
                                                     (read_ptr % CHUNK_SIZE) + n_read),
                                       len) :
               bytes \in {IndexingChunk_get_bytes(Unwrap(Storage_get(
                              c.archive,
                              c.hot.archived_chunks[read_ptr \div CHUNK_SIZE + 1][3])))},
               n_read \in {Fits(CHUNK_SIZE - (read_ptr % CHUNK_SIZE), len - Len(out))}} : TRUE)
    ELSE (CHOOSE v \in {[bytes |-> out \o SubSeq(bytes, (read_ptr % CHUNK_SIZE) + 1,
                                                 (read_ptr % CHUNK_SIZE) + read),
                         read_ptr |-> read_ptr + read] :
               bytes \in {HotIndexingChunk_get_bytes(c.hot)},
               read \in {Fits(Len(HotIndexingChunk_get_bytes(c.hot)) - (read_ptr % CHUNK_SIZE),
                              len - Len(out))}} : TRUE)

\* io::Read::read for ChunkRef into a buffer of len bytes: the bytes read and
\* the read pointer after the call
ChunkRef_read(c, r, len) == ChunkRef_read_from(c, r.read_ptr, << >>, len)

-----------------------------------------------------------------------------
(* Specification SpecChunk: postings are written to one chunk through           *)
(* MutChunkRef, and the chunk is read from its start through ChunkRef.  chunk is *)
(*   [c |-> the hot chunk and the archive, written |-> every byte handed to     *)
(*    write_posting, in order, postings |-> the calls of write_posting,         *)
(*    reader |-> None or the open ChunkRef, got |-> the bytes it has read,      *)
(*    readers |-> the ChunkRefs opened so far,                                  *)
(*    last |-> the last call: the length of its buffer and the bytes it moved]   *)

\* the bytes written to the chunk in one behaviour
MaxChunkBytes == 8
\* the calls of write_posting in one behaviour
MaxChunkPostings == 4
\* the ChunkRefs opened in one behaviour
MaxChunkRefs == 2
\* the chunks other owners left in the archive before this chunk was created
MaxForeignChunks == 1

\* the buffers handed to write_posting: shorter than, as long as and longer than
\* what a chunk holds
ChunkBufs == {<< >>, <<1>>, <<2, 3>>, <<4, 5, 6>>, <<7, 8, 9, 10>>}
\* the lengths of the buffers handed to read
ReadLens == {1, 2, 5}

ChunkCall(op, len, moved) == [op |-> op, len |-> len, moved |-> moved]

RECURSIVE ForeignArchive(_)
\* an archive in which other chunks stored n full chunks
ForeignArchive(n) ==
    IF n = 0 THEN RamStorage_new
    ELSE Storage_store(ForeignArchive(n - 1), n - 1, [data |-> [i \in 1..CHUNK_SIZE |-> 255]])

\* let mut storage = ChunkedStorage::new(..); storage.new_chunk(0)
InitChunk ==
    /\ InitListing /\ InitQueryIdle /\ InitSharedIdle /\ InitNoCall
    /\ ring = << >> /\ fs = << >> /\ folder = << >>
    /\ serial = << >> /\ voc = << >> /\ fault = << >>
    /\ \E n \in 0..MaxForeignChunks :
         chunk = [c |-> [hot |-> HotIndexingChunk_new, archive |-> ForeignArchive(n)],
                  written |-> << >>, postings |-> 0,
                  reader |-> None, got |-> << >>, readers |-> 0,
                  last |-> ChunkCall("new_chunk", 0, 0)]

\* chunk.write_posting(doc_id, &buf), while no ChunkRef borrows the chunk
ChunkWritePosting ==
    /\ chunk.reader = None
    /\ chunk.postings < MaxChunkPostings
    /\ \E buf \in ChunkBufs :
         /\ Len(chunk.written) + Len(buf) <= MaxChunkBytes
         /\ chunk' = [chunk EXCEPT
                          !.c = MutChunkRef_write_posting(@, chunk.postings, buf),
                          !.written = @ \o buf,
                          !.postings = @ + 1,
                          !.last = ChunkCall("write_posting", Len(buf), Len(buf))]
    /\ UNCHANGED <<lvars, qvars, shared, pending, ring, fs, folder, serial, voc, fault>>

\* let mut chunk = storage.get(0): a ChunkRef at position 0
ChunkOpen ==
    /\ chunk.reader = None
    /\ chunk.readers < MaxChunkRefs
    /\ chunk' = [chunk EXCEPT !.reader = Some(ChunkRef_new), !.got = << >>,
                              !.readers = @ + 1,
                              !.last = ChunkCall("get", 0, 0)]
    /\ UNCHANGED <<lvars, qvars, shared, pending, ring, fs, folder, serial, voc, fault>>

\* chunk.read(&mut buf) with a buffer of len bytes, as read_to_end calls it
ChunkRead ==
    /\ IsSome(chunk.reader)
    /\ chunk.last.op = "read" => chunk.last.moved > 0
    /\ \E len \in ReadLens :
         \E r \in {ChunkRef_read(chunk.c, Unwrap(chunk.reader), len)} :
             chunk' = [chunk EXCEPT
                           !.reader = Some([read_ptr |-> r.read_ptr]),
                           !.got = @ \o r.bytes,
                           !.last = ChunkCall("read", len, Len(r.bytes))]
    /\ UNCHANGED <<lvars, qvars, shared, pending, ring, fs, folder, serial, voc, fault>>

\* the ChunkRef is dropped
ChunkClose ==
    /\ IsSome(chunk.reader)
    /\ chunk' = [chunk EXCEPT !.reader = None, !.last = ChunkCall("drop", 0, 0)]
    /\ UNCHANGED <<lvars, qvars, shared, pending, ring, fs, folder, serial, voc, fault>>

NextChunk ==
    \/ ChunkWritePosting
    \/ ChunkOpen
    \/ ChunkRead
    \/ ChunkClose

SpecChunk == InitChunk /\ [][NextChunk]_vars

-----------------------------------------------------------------------------
(* index/boolean_index/persistence.rs: the index as a byte stream.  The index  *)
(* of this file is [document_count, index |-> BTreeMap<TTerm, Vec<Posting>>]   *)
(* with TTerm = String: a term is the sequence of its bytes.                    *)

\* persistence.rs: const CHUNKSIZE, 1_000_000 in the source: the bytes buffered
\* before write_terms hands them to the target.  It is scaled down here so that
\* an index of a few terms is written in more than one chunk.
CHUNKSIZE == 40

\* the largest u8, the type of the length field of a term (encode_term, decode_term)
U8_MAX == 255

\* ByteEncodable / ByteDecodable for String: as_bytes, and from_utf8, which
\* accepts every string of ASCII bytes
String_encode(str) == str
String_decode(bytes) ==
    IF \A i \in 1..Len(bytes) : bytes[i] < 128 THEN Ok(bytes) ELSE Err("FromUtf8Error")

RECURSIVE StrLess(_, _)
\* Ord for String: byte by byte, a proper prefix first
StrLess(a, b) ==
    IF b = << >> THEN FALSE
    ELSE IF a = << >> THEN TRUE
    ELSE IF Head(a) # Head(b) THEN Head(a) < Head(b)
    ELSE StrLess(Tail(a), Tail(b))

RECURSIVE SortedTerms(_)
\* the keys of a BTreeMap<String, _> in the order its iterator yields them
SortedTerms(S) ==
    IF S = {} THEN << >>
    ELSE (CHOOSE v \in {<<m>> \o SortedTerms(S \ {m}) :
               m \in {x \in S : \A y \in S \ {x} : StrLess(x, y)}} : TRUE)

\* read_u32: the first 4 bytes as a little-endian u32
read_u32(barry) == FromLe(SubSeq(barry, 1, IF Len(barry) < 4 THEN Len(barry) ELSE 4))

RECURSIVE encode_positions(_)
\* slice::from_raw_parts(posting.1.as_ptr() as *const u8, len * 4): the positions
\* as they lie in memory, 4 little-endian bytes each
encode_positions(positions) ==
    IF positions = << >> THEN << >>
    ELSE LeBytes(Head(positions), 4) \o encode_positions(Tail(positions))

RECURSIVE encode_postings(_)
\* "for posting in term.1.iter()": doc id, number of positions, positions
encode_postings(postings) ==
    IF postings = << >> THEN << >>
    ELSE LeBytes(Head(postings).doc_id, 8)
             \o LeBytes(Len(Head(postings).positions), 4)
             \o encode_positions(Head(postings).positions)
             \o encode_postings(Tail(postings))

\* encode_term: the length of the term "as u8", the term, the postings
encode_term(term, postings) ==
    <<Len(String_encode(term)) % (U8_MAX + 1)>> \o String_encode(term) \o encode_postings(postings)

\* a slice f[from..to] with to beyond the end of f (or from beyond to) panics
InRange(f, from, to) == from <= to /\ to <= Len(f)

RECURSIVE decode_positions_raw(_, _, _)
\* slice::from_raw_parts(f[ptr..].as_ptr() as *const u32, positions_len), copied
decode_positions_raw(f, ptr, positions_len) ==
    IF positions_len = 0 THEN << >>
    ELSE <<read_u32(SubSeq(f, ptr + 1, ptr + 4))>>
             \o decode_positions_raw(f, ptr + 4, positions_len - 1)

RECURSIVE decode_postings(_, _, _)
\* "while ptr < f.len()" of decode_term.  A positions_len that reaches beyond f
\* makes from_raw_parts read memory that is not part of f: undefined behaviour.
decode_postings(f, ptr, postings) ==
    IF ptr >= Len(f) THEN Ok(postings)
    ELSE IF ~InRange(f, ptr, ptr + 12) THEN Panicked
    ELSE (CHOOSE v \in {IF ptr + 12 + 4 * positions_len > Len(f)
               THEN [kind |-> "undefined", value |-> "from_raw_parts"]
               ELSE decode_postings(
                        f, ptr + 12 + 4 * positions_len,
                        Append(postings,
                               Posting_new(doc_id,
                                           decode_positions_raw(f, ptr + 12, positions_len)))) :
               doc_id \in {read_u64(SubSeq(f, ptr + 1, ptr + 8))},
               positions_len \in {read_u32(SubSeq(f, ptr + 9, ptr + 12))}} : TRUE)

\* decode_term: Ok(<<term, postings>>), the Err of TTerm::decode, or a panic.
\* "f[0] + 1" in u8 overflows for 255: a panic where overflow is checked, and 0
\* where it wraps, which makes f[1..0] panic.
decode_term(f) ==
    IF f = << >> THEN Panicked
    ELSE IF f[1] + 1 > U8_MAX THEN Panicked
    ELSE IF ~InRange(f, 1, f[1] + 1) THEN Panicked
    ELSE (CHOOSE v \in {IF term.kind # "Ok" THEN term
               ELSE IF postings.kind # "Ok" THEN postings
               ELSE Ok(<<term.value, postings.value>>) :
               term \in {String_decode(SubSeq(f, 2, f[1] + 1))},
               postings \in {decode_postings(f, f[1] + 1, << >>)}} : TRUE)

RECURSIVE write_terms_from(_, _, _, _)
\* "for term in &self.index" from the first of terms on: bytes is the buffer, w
\* the target with the byte counts its write calls returned
write_terms_from(map, terms, bytes, w) ==
    IF terms = << >>
    THEN [result |-> Ok(Len(bytes)), target |-> w.target \o bytes,
          writes |-> Append(w.writes, Len(bytes))]
    ELSE (CHOOSE v \in {IF Len(filled) > CHUNKSIZE
               THEN write_terms_from(map, Tail(terms), << >>,
                                     [target |-> w.target \o filled,
                                      writes |-> Append(w.writes, Len(filled))])
               ELSE write_terms_from(map, Tail(terms), filled, w) :
               filled \in {bytes \o LeBytes(Len(encode_term(Head(terms), map[Head(terms)])), 4)
                               \o encode_term(Head(terms), map[Head(terms)])}} : TRUE)

\* write_terms into an empty Vec<u8>, whose write takes every byte: the result,
\* the target and the counts of the writes
write_terms(ix) ==
    write_terms_from(ix.index, SortedTerms(DOMAIN ix.index), << >>,
                     [target |-> << >>, writes |-> << >>])

RECURSIVE read_terms_from(_, _, _)
\* "while ptr < bytes.len()" of read_terms
read_terms_from(bytes, ptr, map) ==
    IF ptr >= Len(bytes) THEN Ok(map)
    ELSE IF ~InRange(bytes, ptr, ptr + 4) THEN Panicked
    ELSE (CHOOSE v \in {IF ~InRange(bytes, ptr + 4, ptr + 4 + entry_size) THEN Panicked
               ELSE (CHOOSE v \in {IF d.kind # "Ok" THEN d
                          ELSE read_terms_from(bytes, ptr + 4 + entry_size,
                                               BTreeMap_insert(map, d.value[1], d.value[2])) :
                          d \in {decode_term(SubSeq(bytes, ptr + 5,
                                                    ptr + 4 + entry_size))}} : TRUE) :
               entry_size \in {read_u32(SubSeq(bytes, ptr + 1, ptr + 4))}} : TRUE)

\* read_terms on the bytes read_to_end delivered
read_terms(bytes) == read_terms_from(bytes, 0, BTreeMap_new)

\* PersistentIndex::write_to
write_to(ix) == write_terms(ix)

\* PersistentIndex::read_from
read_from(bytes) ==
    (CHOOSE v \in {IF btree.kind = "Ok"
          THEN Ok([document_count |-> 0, index |-> btree.value])
          ELSE btree :
          btree \in {read_terms(bytes)}} : TRUE)

-----------------------------------------------------------------------------
(* Specification SpecSerial: an index is written, read back and written again, *)
(* as in persistence.rs tests::basic.  serial is                                *)
(*   [ix |-> the index, first |-> None or what the first write_to returned and *)
(*    wrote, back |-> None or the result of read_from on those bytes,          *)
(*    second |-> None or what write_to of the index read back returned]         *)

\* the documents of an index
MaxSerialDocs == 2

\* the terms of an index: "a", "ab", "b" and a term of U8_MAX bytes "z"
SerialTerms == {<<97>>, <<97, 98>>, <<98>>, [i \in 1..U8_MAX |-> 122]}
\* the listings of a term
SerialListings ==
    {<<Posting_new(0, <<0>>)>>, <<Posting_new(MaxSerialDocs - 1, <<1, 3>>)>>,
     <<Posting_new(0, << >>), Posting_new(MaxSerialDocs - 1, <<2>>)>>}
\* an index holds some of the terms, each with one of the listings
SerialIndexes ==
    UNION {[S -> SerialListings] : S \in SUBSET SerialTerms}

InitSerial ==
    /\ InitListing /\ InitQueryIdle /\ InitSharedIdle /\ InitNoCall
    /\ ring = << >> /\ fs = << >> /\ folder = << >> /\ chunk = << >> /\ voc = << >>
    /\ fault = << >>
    /\ \E map \in SerialIndexes :
         serial = [ix |-> [document_count |-> MaxSerialDocs, index |-> map],
                   first |-> None, back |-> None, second |-> None]

\* index.write_to(&mut bytes)
SerialWrite ==
    /\ serial.first = None
    /\ serial' = [serial EXCEPT !.first = Some(write_to(serial.ix))]
    /\ UNCHANGED <<lvars, qvars, shared, pending, ring, fs, folder, chunk, voc, fault>>

\* BooleanIndex::read_from(&mut Cursor::new(bytes))
SerialRead ==
    /\ IsSome(serial.first)
    /\ serial.back = None
    /\ serial' = [serial EXCEPT !.back = Some(read_from(Unwrap(serial.first).target))]
    /\ UNCHANGED <<lvars, qvars, shared, pending, ring, fs, folder, chunk, voc, fault>>

\* .write_to(&mut bytes_2) on the index that was read
SerialRewrite ==
    /\ IsSome(serial.back)
    /\ Unwrap(serial.back).kind = "Ok"
    /\ serial.second = None
    /\ serial' = [serial EXCEPT !.second = Some(write_to(Unwrap(serial.back).value))]
    /\ UNCHANGED <<lvars, qvars, shared, pending, ring, fs, folder, chunk, voc, fault>>

NextSerial ==
    \/ SerialWrite
    \/ SerialRead
    \/ SerialRewrite

SpecSerial == InitSerial /\ [][NextSerial]_vars

-----------------------------------------------------------------------------
(* index/vocabulary.rs: impl Vocabulary for HashMap<TTerm, TermId>.  The map   *)
(* is a function from terms to ids; TermId(n) is the number n.                  *)

\* get_or_add giving a term it already holds a fresh id
Vocabulary_get_or_add_anew(map, term) ==
    [result |-> BTreeMap_len(map), map |-> BTreeMap_insert(map, term, BTreeMap_len(map))]

\* get_or_add: [result |-> the id, map |-> the map after the call]
Vocabulary_get_or_add(map, term) ==
    IF term \notin DOMAIN map
    THEN [result |-> BTreeMap_len(map), map |-> BTreeMap_insert(map, term, BTreeMap_len(map))]
    ELSE [result |-> Unwrap(BTreeMap_get(map, term)), map |-> map]

\* get: the id of the term, if it has one
Vocabulary_get(map, term) == BTreeMap_get(map, term)

-----------------------------------------------------------------------------
(* Specification SpecVocabulary: a vocabulary is filled by get_or_add calls,   *)
(* or is the term_ids of an index built by BooleanIndex::new, and is looked up. *)
(* voc is [kind |-> "HashMap" or "BooleanIndex", term_ids |-> the map,         *)
(*         seen |-> the distinct terms handed in so far, in the order of their *)
(*                  first appearance,                                           *)
(*         calls |-> the number of calls,                                       *)
(*         last |-> the last call: its operation, term, result and the map     *)
(*                  before it]                                                  *)

MaxVocabularyCalls == 5
\* the terms handed to get_or_add and get
VocabularyTerms == {0, 1, 2, 3}

RECURSIVE FirstAppearances(_, _)
\* the distinct terms of a sequence of terms behind those of seen, in the order of
\* their first appearance
FirstAppearances(seen, terms) ==
    IF terms = << >> THEN seen
    ELSE IF \E i \in 1..Len(seen) : seen[i] = Head(terms)
         THEN FirstAppearances(seen, Tail(terms))
         ELSE FirstAppearances(Append(seen, Head(terms)), Tail(terms))

RECURSIVE TermSequence(_)
\* the terms of a collection, document after document
TermSequence(docs) ==
    IF docs = << >> THEN << >> ELSE Head(docs) \o TermSequence(Tail(docs))

InitVocabulary ==
    /\ InitListing /\ InitQueryIdle /\ InitSharedIdle /\ InitNoCall
    /\ ring = << >> /\ fs = << >> /\ folder = << >> /\ chunk = << >> /\ serial = << >>
    /\ fault = << >>
    /\ voc = [kind |-> "HashMap", term_ids |-> BTreeMap_new, seen |-> << >>, calls |-> 0,
              last |-> [op |-> "new", term |-> 0, result |-> None, before |-> BTreeMap_new]]

\* vocabulary.get_or_add(term)
VocabularyGetOrAdd ==
    /\ voc.kind = "HashMap"
    /\ voc.calls < MaxVocabularyCalls
    /\ \E term \in VocabularyTerms :
         \E r \in {Vocabulary_get_or_add(voc.term_ids, term)} :
           voc' = [voc EXCEPT !.term_ids = r.map,
                              !.seen = FirstAppearances(@, <<term>>),
                              !.calls = @ + 1,
                              !.last = [op |-> "get_or_add", term |-> term,
                                        result |-> Some(r.result),
                                        before |-> voc.term_ids]]
    /\ UNCHANGED <<lvars, qvars, shared, pending, ring, fs, folder, chunk, serial, fault>>

\* vocabulary.get(&term), and term_ids.get(term) of an index
VocabularyGet ==
    /\ voc.calls < MaxVocabularyCalls
    /\ \E term \in VocabularyTerms :
         voc' = [voc EXCEPT !.calls = @ + 1,
                            !.last = [op |-> "get", term |-> term,
                                      result |-> Vocabulary_get(voc.term_ids, term),
                                      before |-> voc.term_ids]]
    /\ UNCHANGED <<lvars, qvars, shared, pending, ring, fs, folder, chunk, serial, fault>>

\* BooleanIndex::new(RamStorage::new(), documents): index_documents fills term_ids
VocabularyIndexDocuments ==
    /\ voc.calls = 0
    /\ \E docs \in Collections :
         \E ix \in {BooleanIndex_new(RamStorage_new, docs)} :
           voc' = [voc EXCEPT !.kind = "BooleanIndex",
                              !.term_ids = ix.term_ids,
                              !.seen = FirstAppearances(<< >>, TermSequence(docs)),
                              !.calls = 1,
                              !.last = [op |-> "index_documents", term |-> 0,
                                        result |-> None, before |-> BTreeMap_new]]
    /\ UNCHANGED <<lvars, qvars, shared, pending, ring, fs, folder, chunk, serial, fault>>

NextVocabulary ==
    \/ VocabularyGetOrAdd
    \/ VocabularyGet
    \/ VocabularyIndexDocuments

SpecVocabulary == InitVocabulary /\ [][NextVocabulary]_vars

-----------------------------------------------------------------------------
(* Listing::ship with a cache operation that fails.  store_block,              *)
(* store_in_place and flush_page hand ship a PageId or nothing, never a Result *)
(* (listing.rs 136, 139, 146): a failure inside them reaches ship as a panic,  *)
(* which ends ship, and the call that made it, at that statement.  The cache    *)
(* is taken to be left as it was by the operation that failed.                  *)

CacheOperations == {"store_block", "store_in_place", "flush_page"}

\* ship when the cache operation failing fails: [l, c, panicked].  The bias is
\* pushed (line 142) and current_page taken (line 146, an argument of the call)
\* before flush_page is called.
ship_cut(s, block, failing) ==
    IF failing = "store_block" /\ s.l.block_counter = BlockId_first
    THEN [l |-> s.l, c |-> s.c, panicked |-> TRUE]
    ELSE IF failing = "store_in_place" /\ s.l.block_counter # BlockId_first
    THEN [l |-> s.l, c |-> s.c, panicked |-> TRUE]
    ELSE IF failing = "flush_page" /\ s.l.block_counter = BlockId_last
    THEN (CHOOSE v \in {[l |-> [s.l EXCEPT !.current_page = None,
                                          !.block_biases = Append(@, s.l.block_start)],
                c |-> stored.c, panicked |-> TRUE] :
               stored \in {ship_store(s, block)}} : TRUE)
    ELSE (CHOOSE v \in {[l |-> s1.l, c |-> s1.c, panicked |-> FALSE] :
               s1 \in {ship(s, block)}} : TRUE)

\* the state in which ship is entered by the commit of a buffer that holds
\* postings, but no full block: compress_and_ship(true) forces one block
commit_ships(s) ==
    (CHOOSE v \in {[s EXCEPT !.l.posting_buffer = r.rb] :
          r \in {force_compress(s.l.posting_buffer)}} : TRUE)

\* commit on such a buffer with a failing cache operation
commit_cut(s, failing) ==
    ship_cut(commit_ships(s), force_compress(s.l.posting_buffer).block, failing)

\* the state in which ship is entered by the add of a slice that fills the empty
\* buffer of a listing without unfull page to exactly one block: the loop ships
\* nothing, the compress_and_ship behind it one block
add_ships(s, postings) ==
    (CHOOSE v \in {[s1 EXCEPT !.l.posting_buffer = compress(s1.l.posting_buffer).rb] :
          s1 \in {add_range(s, postings, 0, Len(postings) - 1)}} : TRUE)

\* add of such a slice with a failing cache operation
add_cut(s, postings, failing) ==
    ship_cut(add_ships(s, postings),
             Unwrap(compress(add_range(s, postings, 0, Len(postings) - 1).l.posting_buffer).block),
             failing)

-----------------------------------------------------------------------------
(* Specification SpecFault: a listing is built by add and commit calls until a *)
(* cache operation fails inside a ship.  fault is None or                      *)
(*   Some([failing |-> the operation, before |-> the listing when ship was     *)
(*         entered, after |-> the listing the panic left])                      *)

MaxFaultCalls == 3

FaultAdd == fault = None /\ Add(MaxFaultCalls)

FaultAddLong == fault = None /\ AddLong(MaxFaultCalls)

FaultCommit == fault = None /\ Commit(MaxFaultCalls)

\* listing.commit(&mut cache), the cache operation of its ship failing
CommitFails ==
    /\ fault = None
    /\ decoder = None
    /\ Len(calls) < MaxFaultCalls
    /\ listing.posting_buffer.count > 0
    /\ listing.posting_buffer.count < BlockPostings
    /\ \E failing \in CacheOperations :
         \E cut \in {commit_cut([l |-> listing, c |-> cache], failing)} :
            /\ cut.panicked
            /\ listing' = cut.l /\ cache' = cut.c
            /\ fault' = Some([failing |-> failing,
                              before |-> commit_ships([l |-> listing, c |-> cache]).l,
                              after |-> cut.l])
    /\ calls' = Append(calls, CommitCall)
    /\ UNCHANGED <<decoder, added, index, documents, query, result, shared, pending,
                   ring, fs, folder, chunk, serial, voc>>

\* listing.add(&slice, &mut cache) with a slice of one block, the cache operation
\* of its ship failing
AddFails ==
    /\ fault = None
    /\ decoder = None
    /\ Len(calls) < MaxFaultCalls
    /\ listing.pages.unfull = None
    /\ listing.posting_buffer.count = 0
    /\ \E shape \in {sh \in SmallShapes : sh.len = BlockPostings /\ sh.gap > 0} :
         /\ Len(added) + shape.len <= MaxPostings
         /\ \E failing \in CacheOperations :
              \E cut \in {add_cut([l |-> listing, c |-> cache], Slice(shape), failing)} :
                 /\ cut.panicked
                 /\ listing' = cut.l /\ cache' = cut.c
                 /\ fault' = Some([failing |-> failing,
                                   before |-> add_ships([l |-> listing, c |-> cache],
                                                        Slice(shape)).l,
                                   after |-> cut.l])
         /\ added' = added \o Slice(shape)
         /\ calls' = Append(calls, AddOf(shape.len))
    /\ UNCHANGED <<decoder, index, documents, query, result, shared, pending,
                   ring, fs, folder, chunk, serial, voc>>

NextFault ==
    \/ FaultAdd
    \/ FaultAddLong
    \/ FaultCommit
    \/ CommitFails
    \/ AddFails

SpecFault == Init /\ [][NextFault]_vars

-----------------------------------------------------------------------------
(* FsStorage::store with a write that fails.  write_all may have written a     *)
(* part of its bytes when it returns the error.                                 *)

\* store whose write to failing ("data" or "entries") returns an error after
\* written bytes: the storage the Err(WriteError) return leaves.  A failed write
\* to data returns at line 113; a failed write to entries returns at line 120,
\* behind the write to data and the insert into entries and before the update
\* of current_offset.
FsStorage_store_failing(s, id, data, failing, written) ==
    (CHOOSE v \in {IF failing = "data"
          THEN [s EXCEPT
                   !.data_bin = WriteAt(@, at, SubSeq(bytes, 1, written)),
                   !.cursor = at + written]
          ELSE [s EXCEPT
                   !.data_bin = WriteAt(@, at, bytes),
                   !.cursor = at + Len(bytes),
                   !.entries = BTreeMap_insert(@, id, [offset |-> s.current_offset,
                                                       length |-> Len(bytes)]),
                   !.entries_bin =
                       @ \o SubSeq(encode_entry(id, s.current_offset, Len(bytes)),
                                   1, written)] :
          bytes \in {Item_encode(s.item_type, data)},
          at \in {IF s.append THEN Len(s.data_bin) ELSE s.cursor}} : TRUE)

-----------------------------------------------------------------------------
(* Specification SpecFsFault: store calls on a new FsStorage<usize>, some of   *)
(* which fail.  fs is                                                           *)
(*   [storage |-> the FsStorage, latest |-> id -> the item of the last store   *)
(*    of id that returned Ok, written_at |-> id -> the position in data.bin at *)
(*    which that store wrote, calls, failures |-> the calls made and those     *)
(*    that returned an error, last |-> the last call]                           *)

MaxFsFaultCalls == 3
\* the bytes a failing write_all wrote before the error
MaxFsWritten == 1

InitFsFault ==
    /\ InitListing /\ InitQueryIdle /\ InitSharedIdle /\ InitNoCall
    /\ ring = << >>
    /\ fs = [storage |-> FsStorage_new("usize"), latest |-> BTreeMap_new,
             written_at |-> BTreeMap_new, calls |-> 0, failures |-> 0,
             last |-> FsCall("new", 0, Ok(<< >>))]
    /\ folder = << >> /\ chunk = << >>
    /\ serial = << >> /\ voc = << >> /\ fault = << >>

\* prov.store(id, item) returning Ok(())
FsFaultStore ==
    /\ fs.calls < MaxFsFaultCalls
    /\ \E id \in FsIds, item \in FsItems :
         fs' = [fs EXCEPT !.storage = FsStorage_store(@, id, item),
                          !.latest = BTreeMap_insert(@, id, item),
                          !.written_at = BTreeMap_insert(@, id, fs.storage.cursor),
                          !.calls = @ + 1,
                          !.last = FsCall("store", id, Ok(<< >>))]
    /\ UNCHANGED <<lvars, qvars, shared, pending, ring, folder, chunk, serial, voc, fault>>

\* prov.store(id, item) returning Err(WriteError): the write to data.bin or the
\* write to entries.bin failed
FsStoreFails ==
    /\ fs.calls < MaxFsFaultCalls
    /\ \E id \in FsIds, item \in FsItems, failing \in {"data", "entries"},
          written \in 0..MaxFsWritten :
         fs' = [fs EXCEPT !.storage = FsStorage_store_failing(@, id, item, failing, written),
                          !.calls = @ + 1,
                          !.failures = @ + 1,
                          !.last = FsCall("store", id, Err(failing))]
    /\ UNCHANGED <<lvars, qvars, shared, pending, ring, folder, chunk, serial, voc, fault>>

NextFsFault ==
    \/ FsFaultStore
    \/ FsStoreFails

SpecFsFault == InitFsFault /\ [][NextFsFault]_vars

-----------------------------------------------------------------------------
(* Properties of the listing and its decoder *)

StrictlyIncreasing(seq) == \A i \in 1..(Len(seq) - 1) : seq[i] < seq[i + 1]
CommitCount == Cardinality({i \in 1..Len(calls) : calls[i] = CommitCall})
AddCount == Len(calls) - CommitCount
\* seq with every run of equal doc ids collapsed to its first element
Collapse(seq) == SelectSeq([i \in 1..Len(seq) |-> <<i, seq[i]>>] \o << >>,
                           LAMBDA e : e[1] = 1 \/ seq[e[1] - 1] # e[2])
DocIds(pairs) == [i \in 1..Len(pairs) |-> pairs[i][2]] \o << >>
\* the postings of seq from the first one with doc id >= target on
From(seq, target) == SelectSeq(seq, LAMBDA p : p >= target)
IsPrefix(a, b) == Len(a) <= Len(b) /\ a = SubSeq(b, 1, Len(a))

\* a decoder that was made on the committed listing and read by next()/collect() to its end
Collected == IsSome(decoder) /\ Unwrap(decoder).done /\ Unwrap(decoder).sought = None
Yielded == Unwrap(decoder).yielded

\* the listing that one add of all of seq and one commit build, decoded
OneShot(seq) ==
    (CHOOSE v \in {collect(posting_decoder(s.l, s.c)).items :
          s \in {commit(add([l |-> Listing_new, c |-> RamPageCache_new], seq))}} : TRUE)

AppendAfterCommitEquivalence ==
    (Collected /\ StrictlyIncreasing(added)) => Yielded = OneShot(added)

\* C3 (as claimed): a posting whose doc id equals that of the last accepted posting
\* is dropped and not counted, also when that posting was already shipped: len()
\* is the number of distinct doc ids, and the committed listing holds each once.
IdempotentDocIds ==
    /\ CommitCount = 0 => Listing_len(listing) = Len(Collapse(added))
    /\ (Collected /\ CommitCount = 1) => Yielded = DocIds(Collapse(added))

\* C4 (as claimed): next_seek(T) on the decoder of a committed listing returns the
\* first posting with doc id >= T (None when there is none) and the next() calls
\* after it return the postings that follow.
SeekCorrectness ==
    (IsSome(decoder) /\ IsSome(Unwrap(decoder).sought)
        /\ CommitCount = 1 /\ StrictlyIncreasing(added)) =>
    LET dv == Unwrap(decoder)
        expected == From(added, Unwrap(dv.sought))
    IN  IF dv.done THEN dv.yielded = expected
        ELSE dv.yielded # << >> /\ IsPrefix(dv.yielded, expected)

\* C9 (as claimed): the decoder yields strictly increasing doc ids for a listing
\* built by any sequence of add and commit calls.
DecoderOrdering ==
    (IsSome(decoder) /\ StrictlyIncreasing(added)) => StrictlyIncreasing(Yielded)

-----------------------------------------------------------------------------
(* Properties of the index and its queries *)

\* the query that was run, and what a query yields on the index
Asked == Unwrap(query)
Answer(q) == QueryResultIterator_collect(execute_query(Unwrap(index), q))
AnswerSet(q) == Range(Answer(q))
\* read off the collection: the ids of the documents that hold term, and the
\* positions of term in document doc_id
Containing(term) ==
    {d \in 0..(Len(documents) - 1) : term \in Range(documents[d + 1])}
PositionsIn(term, doc_id) ==
    {k \in 0..(Len(documents[doc_id + 1]) - 1) : documents[doc_id + 1][k + 1] = term}
NoRepeats(seq) == Cardinality(Range(seq)) = Len(seq)

\* C5: the doc ids NAry(And, [q1..qn]) yields are the intersection of the doc id
\* sets its operands yield (so none when one operand yields none).
AndIsIntersection ==
    (IsSome(query) /\ Asked.kind = "NAry" /\ Asked.operator = "And") =>
        Range(result) =
            {d \in AnswerSet(Asked.operands[1]) :
                \A i \in 1..Len(Asked.operands) : d \in AnswerSet(Asked.operands[i])}

\* C5 witness: an AND over an atom and a nested query that yields a document, each
\* operand yielding a document the AND rejects
AndIsIntersectionWitness ==
    /\ IsSome(query) /\ Asked.kind = "NAry" /\ Asked.operator = "And"
    /\ Len(Asked.operands) = 2
    /\ \E i \in 1..2 : Asked.operands[i].kind = "NAry"
    /\ result # << >>
    /\ \A i \in 1..2 : AnswerSet(Asked.operands[i]) # Range(result)

\* C6: NAry(Or, [q1..qn]) yields exactly the union of the doc ids its operands
\* yield, each once.
OrIsUnion ==
    (IsSome(query) /\ Asked.kind = "NAry" /\ Asked.operator = "Or") =>
        /\ Range(result) = UNION {AnswerSet(Asked.operands[i]) : i \in 1..Len(Asked.operands)}
        /\ NoRepeats(result)

\* C6 witness: an OR with a nested OR whose operands overlap in a document without
\* one of them yielding the whole result
OrIsUnionWitness ==
    /\ IsSome(query) /\ Asked.kind = "NAry" /\ Asked.operator = "Or"
    /\ Len(Asked.operands) = 2
    /\ \E i \in 1..2 : Asked.operands[i].kind = "NAry" /\ Asked.operands[i].operator = "Or"
    /\ AnswerSet(Asked.operands[1]) \cap AnswerSet(Asked.operands[2]) # {}
    /\ \A i \in 1..2 : AnswerSet(Asked.operands[i]) # Range(result)

\* C7: Filter(Not, sand, sieve) yields exactly the doc ids sand yields that the
\* sieve does not yield.
NotIsDifference ==
    (IsSome(query) /\ Asked.kind = "Filter") =>
        result = SelectSeq(Answer(Asked.sand), LAMBDA d : d \notin AnswerSet(Asked.sieve))

\* C7 witness: a filter whose sieve removes a document, skips one that sand does
\* not yield and lets a document through
NotIsDifferenceWitness ==
    /\ IsSome(query) /\ Asked.kind = "Filter"
    /\ result # << >>
    /\ AnswerSet(Asked.sand) \cap AnswerSet(Asked.sieve) # {}
    /\ AnswerSet(Asked.sieve) \ AnswerSet(Asked.sand) # {}

\* the documents in which every atom's term stands at base + relative_position
\* for one base (an integer: it is below 0 when every relative position is above
\* the position of its term)
InOrderMatches(atoms) ==
    {d \in 0..(Len(documents) - 1) :
        \E base \in {k - atoms[1].relative_position : k \in PositionsIn(atoms[1].query_term, d)} :
            \A i \in 1..Len(atoms) :
                base + atoms[i].relative_position \in PositionsIn(atoms[i].query_term, d)}

\* C8: Positional(InOrder, atoms) yields document d exactly when there is a base
\* position p with p + relative_pos_i among the positions of term_i in d for every
\* atom i; the order of the atoms does not matter.
PositionalInOrder ==
    (IsSome(query) /\ Asked.kind = "Positional") =>
        /\ Range(result) = InOrderMatches(Asked.operands)
        /\ \A i \in 1..Len(Asked.operands) :
               Range(result) = AnswerSet(Positional("InOrder",
                                   SubSeq(Asked.operands, i, Len(Asked.operands))
                                       \o SubSeq(Asked.operands, 1, i - 1)))

\* C8 witness: three atoms, a document that holds all the terms but not in
\* order, and a document that matches
PositionalInOrderWitness ==
    /\ IsSome(query) /\ Asked.kind = "Positional"
    /\ Len(Asked.operands) = 3
    /\ result # << >>
    /\ \E d \in 0..(Len(documents) - 1) :
          /\ d \notin Range(result)
          /\ \A i \in 1..3 : d \in Containing(Asked.operands[i].query_term)

\* C10: documents are numbered 0, 1, 2, ... in the order they are indexed, and
\* Atom(t) yields exactly the ids of the documents that contain t, ascending
\* (nothing for a term that is not in the vocabulary).
AtomSemantics ==
    /\ IsSome(index) => Unwrap(index).document_count = Len(documents)
    /\ (IsSome(query) /\ Asked.kind = "Atom") =>
           result = SortedSeq(Containing(Asked.atom.query_term))

\* C10 witness: an atom that two of three documents hold, the first not
AtomSemanticsWitness ==
    /\ IsSome(query) /\ Asked.kind = "Atom"
    /\ Len(documents) = 3
    /\ result = <<1, 2>>

\* read off the collection: the terms that occur, and the inverted list of term:
\* a posting for every document that holds it, ascending by doc id, with the
\* positions of the term in that document, ascending
TermsOf(docs) == UNION {Range(docs[d]) : d \in 1..Len(docs)}
ReferenceListing(term) ==
    (CHOOSE v \in {Tuple([i \in 1..Len(ds) |->
                        Posting_new(ds[i], SortedSeq(PositionsIn(term, ds[i])))]) :
          ds \in {SortedSeq(Containing(term))}} : TRUE)

\* C11: after index_documents the vocabulary holds exactly the terms of the
\* collection, the listing stored for each term is its reference inverted list
\* (ascending doc ids, each posting's positions strictly ascending, no
\* duplicates), no other listing is stored, and document_count is the number
\* of documents.
IndexConstruction ==
    IsSome(index) =>
        LET ix == Unwrap(index)
        IN  /\ ix.document_count = Len(documents)
            /\ DOMAIN ix.term_ids = TermsOf(documents)
            /\ DOMAIN ix.postings.items = {ix.term_ids[t] : t \in DOMAIN ix.term_ids}
            /\ \A t \in DOMAIN ix.term_ids :
                   Storage_get(ix.postings, ix.term_ids[t]) = Some(ReferenceListing(t))

\* C11 witness: three documents, a term that stands twice in one of them, in
\* one place in another, and not at all in a third
IndexConstructionWitness ==
    /\ IsSome(index) /\ Len(documents) = 3
    /\ \E t \in DOMAIN Unwrap(index).term_ids :
          LET stored == Unwrap(Storage_get(Unwrap(index).postings, Unwrap(index).term_ids[t]))
          IN  /\ Len(stored) = 2
              /\ Len(stored[1].positions) = 2
              /\ Len(stored[2].positions) = 1

-----------------------------------------------------------------------------
(* Properties of listings that share a cache *)

\* the block slots a listing holds: every slot of its full pages, the slots
\* [from, to) of its unfull page, and the slots below block_counter of the page
\* it is filling in the cache
OwnedSlots(l) ==
    {<<"stored", l.pages.full[k], b>> : k \in 1..Len(l.pages.full), b \in 0..(PAGESIZE - 1)}
        \cup (IF IsSome(l.pages.unfull)
              THEN {<<"stored", Unwrap(l.pages.unfull).page_id, b>> :
                       b \in Unwrap(l.pages.unfull).from..(Unwrap(l.pages.unfull).to - 1)}
              ELSE {})
        \cup (IF IsSome(l.current_page)
              THEN {<<"cached", Unwrap(l.current_page), b>> : b \in 0..(l.block_counter - 1)}
              ELSE {})

SharedCommitted(i) ==
    shared[i].calls # << >> /\ shared[i].calls[Len(shared[i].calls)] = CommitCall

\* no block slot is held by two listings
DisjointSlots ==
    \A i \in 1..Len(shared), j \in 1..Len(shared) :
        i # j => OwnedSlots(shared[i].l) \cap OwnedSlots(shared[j].l) = {}

\* C12 (as claimed): for any interleaving of add and commit calls on listings that
\* share a cache, no block slot is held by two listings, and once all are
\* committed each listing's decoder yields exactly the postings added to it.
SharedCacheIsolation ==
    /\ DisjointSlots
    /\ (\A i \in 1..Len(shared) : SharedCommitted(i)) =>
           \A i \in 1..Len(shared) :
               collect(posting_decoder(shared[i].l, cache)).items = shared[i].added

-----------------------------------------------------------------------------
(* Invariants of one listing *)

\* the blocks the listing holds, in block order: those of its full pages, of its
\* unfull page and of the page it is filling
BlockCount(l) ==
    Len(l.pages.full) * PAGESIZE
        + (IF IsSome(l.pages.unfull)
           THEN Unwrap(l.pages.unfull).to - Unwrap(l.pages.unfull).from ELSE 0)
        + (IF IsSome(l.current_page) THEN l.block_counter ELSE 0)

\* C13 (as claimed): after any sequence of add and commit calls, block_biases[k]
\* is at most the first doc id stored in block k (strictly increasing postings
\* fill the blocks in order, BLOCKSIZE/4 to a block), and block_biases[k] is
\* below block_biases[k+1] whenever block k+1 exists.
BlockBiasAnchoring ==
    StrictlyIncreasing(added) =>
        \A k \in 0..(BlockCount(listing) - 1) :
            /\ k < Len(listing.block_biases)
            /\ BlockPostings * k + 1 <= Len(added)
            /\ listing.block_biases[k + 1] <= added[BlockPostings * k + 1]
            /\ (k + 1 < BlockCount(listing)
                  => listing.block_biases[k + 1] < listing.block_biases[k + 2])

\* C14 (as claimed): after any sequence of add and commit calls of strictly
\* increasing postings block_biases holds one entry per block of the listing, and
\* len() is the number of distinct postings added (the postings an add re-adds
\* after a commit are not counted a second time).
UnravelBookkeeping ==
    StrictlyIncreasing(added) =>
        /\ Len(listing.block_biases) = BlockCount(listing)
        /\ Listing_len(listing) = Cardinality(Range(added))

\* C15: a listing's pages hold no unfull descriptor or one; Pages::get returns
\* its page exactly at the index after the full pages; after add returns there
\* is none, and there is one only when the last call was commit.
UnfullPageUniqueness ==
    LET pages == listing.pages
    IN  /\ Len(pages.unfull) <= 1
        /\ Pages_len(pages) = Len(pages.full) + Len(pages.unfull)
        /\ IF IsSome(pages.unfull)
           THEN \A ptr \in 0..(Pages_len(pages) + 1) :
                    Pages_get(pages, ptr) = Some(Unwrap(pages.unfull).page_id)
                        <=> ptr = Len(pages.full)
           ELSE Pages_get(pages, Len(pages.full)) = None
        /\ (calls # << >> /\ calls[Len(calls)].op = "add") => pages.unfull = None
        /\ IsSome(pages.unfull) => LastCallIsCommit

\* C15 witness: a second commit, after an add that unravelled the unfull page of
\* the first, leaves one unfull page again
UnfullPageUniquenessWitness ==
    /\ CommitCount = 2 /\ Len(calls) = 4
    /\ calls[2] = CommitCall /\ calls[3].op = "add" /\ calls[4] = CommitCall
    /\ IsSome(listing.pages.unfull)
    /\ Unwrap(listing.pages.unfull).to = 2

CeilDiv(a, b) == (a + b - 1) \div b

\* the slots of a stored page that hold a block (a shipped block is never all
\* zeros: its postings ascend and a forced block is padded with DocId::none())
WrittenSlots(c, page_id) ==
    {b \in 0..(PAGESIZE - 1) : get_block(c, page_id, b) # EmptyBlock}

\* the blocks written to the pages of a committed listing
RECURSIVE WrittenBlocks(_, _, _)
WrittenBlocks(c, pages, ptr) ==
    IF ptr >= Pages_len(pages) THEN 0
    ELSE Cardinality(WrittenSlots(c, Unwrap(Pages_get(pages, ptr))))
             + WrittenBlocks(c, pages, ptr + 1)

\* C18: after commit returns the ring buffer is empty, current_page is None and
\* block_counter is first; pages holds an unfull descriptor exactly when blocks
\* were shipped since the last full page (it then covers these blocks), so
\* pages.len() is ceil(blocks / PAGESIZE); a first commit of n postings leaves
\* ceil(n / 16) blocks.
CommitPostcondition ==
    LastCallIsCommit =>
        LET blocks == WrittenBlocks(cache, listing.pages, 0)
            unfull == listing.pages.unfull
        IN  /\ is_empty(listing.posting_buffer)
            /\ listing.current_page = None
            /\ listing.block_counter = BlockId_first
            /\ IsSome(unfull) <=> blocks % PAGESIZE # 0
            /\ IsSome(unfull) =>
                   /\ Unwrap(unfull).from = BlockId_first
                   /\ Unwrap(unfull).to = blocks % PAGESIZE
                   /\ WrittenSlots(cache, Unwrap(unfull).page_id)
                          = Unwrap(unfull).from..(Unwrap(unfull).to - 1)
            /\ Pages_len(listing.pages) = CeilDiv(blocks, PAGESIZE)
            /\ (CommitCount = 1 /\ StrictlyIncreasing(added))
                   => blocks = CeilDiv(Len(added), BlockPostings)

\* C18 witness: a commit right after the block that filled a page was shipped:
\* one page, no unfull descriptor
CommitPostconditionWitness ==
    /\ LastCallIsCommit
    /\ Len(added) = PAGESIZE * BlockPostings
    /\ Len(listing.pages.full) = 1
    /\ listing.pages.unfull = None

\* C19: on a listing that was never committed, after add calls that accepted n
\* postings in total (all of them when the doc ids ascend strictly),
\* floor(n / 16) blocks have been shipped, each with its bias, the ring buffer
\* holds n mod 16 postings and pages.len() is floor(floor(n / 16) / PAGESIZE).
ShippingAccounting ==
    CommitCount = 0 =>
        LET n == Listing_len(listing)
        IN  /\ StrictlyIncreasing(added) => n = Len(added)
            /\ Len(Collapse(added)) <= n /\ n <= Len(added)
            /\ Len(listing.block_biases) = n \div BlockPostings
            /\ BlockCount(listing) = n \div BlockPostings
            /\ listing.posting_buffer.count = n % BlockPostings
            /\ Pages_len(listing.pages) = (n \div BlockPostings) \div PAGESIZE

\* C19 witness: add calls without a commit that filled a page and left one
\* posting in the buffer
ShippingAccountingWitness ==
    /\ CommitCount = 0 /\ AddCount >= 2
    /\ Listing_len(listing) = PAGESIZE * BlockPostings + 1
    /\ Pages_len(listing.pages) = 1
    /\ listing.posting_buffer.count = 1

-----------------------------------------------------------------------------
(* Properties of the states inside Listing::add *)

\* the turn by turn run of add ends in the state the add operator computes
StepsAgreeWithAdd ==
    [][(Len(pending) = 1 /\ pending' = << >>) =>
           [l |-> listing', c |-> cache'] = add(pending[1].entry, pending[1].postings)]_vars

\* the next turn of the loop pushes its posting: it is not skipped as a repeat
NextTurnPushes ==
    /\ pending # << >>
    /\ Top.i < Len(Top.postings)
    /\ ~(~is_empty(listing.posting_buffer) /\ listing.block_end = Top.postings[Top.i + 1])

\* C16 (as claimed): for any sequence of add and commit calls, with slices of any
\* length and with repeated doc ids at any index, push_back is never called on a
\* ring buffer that holds SIZE postings.
NoRingBufferOverflow ==
    NextTurnPushes => listing.posting_buffer.count < SIZE

\* C17 (as claimed): in every state of a listing, the states between two pushes of
\* one add call included, the ring buffer holds at most BLOCKSIZE/4 postings.
RingBufferBound ==
    listing.posting_buffer.count <= BlockPostings

-----------------------------------------------------------------------------
(* Properties of a decoder that is sought several times *)

\* C20 (as claimed): for any non-decreasing sequence of next_seek targets issued to
\* one decoder, each block of the listing is read (positioned at and decoded
\* from its start) at most once.
SeekReadsBlocksOnce ==
    IsSome(decoder) => NoRepeats(Unwrap(decoder).reads)

-----------------------------------------------------------------------------
(* Properties of the ring buffer *)

\* C21: the ring buffer refines a bounded FIFO queue.  For any sequence of
\* push_back, pop_front, peek_front and flush calls in which the count never
\* exceeds SIZE: the buffer holds the reference queue's elements in push order
\* (also after start wrapped around the array), count() is their number, pop_front
\* and peek_front return what the reference queue returns, peek_front and a
\* pop_front on an empty buffer leave the buffer as it was, and after flush the
\* buffer is empty.
RingRefinesFifo ==
    /\ Queue(ring.rb) = ring.fifo
    /\ count(ring.rb) = Len(ring.fifo)
    /\ is_empty(ring.rb) <=> ring.fifo = << >>
    /\ ring.last.returned = ring.last.expected
    /\ ring.last.op = "peek_front" => ring.last.unchanged
    /\ (ring.last.op = "pop_front" /\ ring.last.expected = None) => ring.last.unchanged
    /\ ring.last.op = "flush" => is_empty(ring.rb) /\ peek_front(ring.rb) = None

\* a pop_front returned an element while the queued elements straddle the end of
\* the array, after more than SIZE pushes
RingRefinesFifoWitness ==
    /\ ring.last.op = "pop_front"
    /\ IsSome(ring.last.returned)
    /\ ring.pushes > SIZE
    /\ ring.rb.start + count(ring.rb) > SIZE


\* C22: push_back_biased(p) enqueues p + base; pop_front_biased() returns the
\* dequeued element minus the base current at pop time (None on an empty buffer);
\* hence a posting pushed and popped under the same base comes back as p; and
\* set_base changes no queued element.  (Doc ids are u32 residues, see the head of
\* the module.)
BiasedPushPop ==
    /\ ring.last.op = "push_back_biased" =>
           Queue(ring.rb) = Append(ring.last.before, Unwrap(ring.last.arg) + ring.rb.base)
    /\ ring.last.op = "pop_front_biased" =>
           IF ring.last.before = << >>
           THEN ring.last.returned = None /\ Queue(ring.rb) = << >>
           ELSE /\ ring.last.returned = Some(Head(ring.last.before) - ring.rb.base)
                /\ Queue(ring.rb) = Tail(ring.last.before)
                /\ Unwrap(ring.last.arg).base = ring.rb.base =>
                       ring.last.returned = Some(Unwrap(ring.last.arg).posting)
    /\ ring.last.op = "set_base" =>
           Queue(ring.rb) = ring.last.before /\ ring.rb.base = Unwrap(ring.last.arg)
    /\ Queue(ring.rb) = [i \in 1..Len(ring.fifo) |-> ring.fifo[i].posting + ring.fifo[i].base]

\* a posting pushed under a non-zero base was popped under the same base, with
\* another base set in between or another posting queued behind it
BiasedPushPopWitness ==
    /\ ring.last.op = "pop_front_biased"
    /\ IsSome(ring.last.arg)
    /\ Unwrap(ring.last.arg).base = ring.rb.base
    /\ ring.rb.base # 0
    /\ ring.last.returned = Some(Unwrap(ring.last.arg).posting)
    /\ Queue(ring.rb) # << >>

-----------------------------------------------------------------------------
(* Properties of the block codec *)

\* the words of a block holding the postings drained under base, in order
WordsOf(drained, base) == [i \in 1..Len(drained) |-> drained[i] - base]

\* C23: compress does not partially drain.  When the buffer holds fewer than
\* BLOCKSIZE/4 postings, compress returns None and leaves the buffer (contents,
\* count, base) unchanged; when it holds at least BLOCKSIZE/4, compress removes
\* exactly the BLOCKSIZE/4 oldest postings, in order, returns Some(block) holding
\* them, and leaves the remaining postings queued.
CompressNoPartialDrain ==
    ring.last.op = "compress" =>
        IF count(ring.last.before) < BlockPostings
        THEN /\ ring.last.returned = None
             /\ ring.rb = ring.last.before
        ELSE /\ IsSome(ring.last.returned)
             /\ Unwrap(ring.last.returned) =
                    WordsOf(FirstN(Queue(ring.last.before), BlockPostings),
                            ring.last.before.base)
             /\ Queue(ring.rb) = AfterN(Queue(ring.last.before), BlockPostings)
             /\ count(ring.rb) = count(ring.last.before) - BlockPostings
             /\ ring.rb.base = ring.last.before.base

\* compress returned a block from a buffer holding more than a block's worth, and
\* before that returned None from a buffer holding some postings
CompressNoPartialDrainWitness ==
    /\ ring.last.op = "compress"
    /\ IsSome(ring.last.returned)
    /\ count(ring.rb) > 0
    /\ ring.codec_calls > 1
    /\ ring.block # None


\* the last call decompressed, into a buffer with the base the block was produced
\* under, a block that holds at least one posting
Decompressed ==
    /\ ring.last.op = "decompress"
    /\ Unwrap(ring.block).base = ring.rb.base
    /\ Len(Unwrap(ring.block).drained) >= 1

\* C24 (as claimed): block codec round trip.  For any buffer holding between 1 and
\* BLOCKSIZE/4 postings with any doc id values, decompress(force_compress(buffer))
\* with the same base appends exactly those postings, in order, and nothing else;
\* for a block produced by compress, decompress returns all BLOCKSIZE/4 postings.
CodecRoundTrip ==
    Decompressed =>
        Queue(ring.rb) = Queue(ring.last.before) \o Unwrap(ring.block).drained

\* the same round trip for the blocks none of whose postings is stored as the word
\* 0xFFFFFFFF
CodecRoundTripBelowNone ==
    (Decompressed /\ \A k \in 1..Len(Unwrap(ring.block).drained) :
                         Unwrap(ring.block).drained[k] - Unwrap(ring.block).base # DocIdNone) =>
        Queue(ring.rb) = Queue(ring.last.before) \o Unwrap(ring.block).drained

-----------------------------------------------------------------------------
(* Properties of FsStorage *)

\* r is Ok(value) / r is Err(error)
IsOk(r, value) == r.kind = "Ok" /\ r.value = value
IsErr(r, error) == r.kind = "Err" /\ r.value = error

\* r is what get(id) is to return: the item last stored under id, or KeyNotFound
Expected(r, id) ==
    IF id \in DOMAIN fs.latest THEN IsOk(r, fs.latest[id]) ELSE IsErr(r, "KeyNotFound")

\* the bytes of every stored id's entry are the encoding of its latest item
ItemsIntact ==
    \A id \in DOMAIN fs.latest : IsOk(FsStorage_get(fs.storage, id).result, fs.latest[id])

\* C25 (as claimed): for any sequence of store and get calls on one FsStorage,
\* with gets interleaved between stores in any order, get(id) returns the item
\* most recently stored under id, and KeyNotFound for an id never stored; a get
\* never changes where or what a later store writes.
GetReturnsLatestStore ==
    fs.reloads = 0 =>
        /\ fs.last.op = "get" => Expected(fs.last.result, fs.last.id)
        /\ fs.last.op = "store" =>
               /\ ItemsIntact
               /\ fs.storage.entries[fs.last.id].offset + fs.storage.entries[fs.last.id].length
                      = Len(fs.storage.data_bin)

\* C26 (as claimed): after FsStorage::from_folder on a folder populated by
\* earlier stores, get returns for every previously stored id the item stored
\* under it; items stored after the reload are appended without changing earlier
\* items; across any number of store / reload cycles.
ReloadKeepsItems ==
    fs.reloads >= 1 =>
        /\ ItemsIntact
        /\ \A id \in FsIds \ DOMAIN fs.latest :
               IsErr(FsStorage_get(fs.storage, id).result, "KeyNotFound")
        /\ fs.last.op = "get" => Expected(fs.last.result, fs.last.id)

\* both, for the histories in which every store wrote at the end of data.bin
UndisturbedStorage ==
    ~fs.disturbed =>
        /\ ItemsIntact
        /\ fs.last.op = "get" => Expected(fs.last.result, fs.last.id)
        /\ fs.storage.current_offset = Len(fs.storage.data_bin)
        /\ DOMAIN fs.storage.entries = DOMAIN fs.latest

-----------------------------------------------------------------------------
(* Properties of the persistent index *)

\* the files of the folder are as create_persistent left them
FilesIntact ==
    /\ folder.files.vocabulary_bin = folder.saved
    /\ folder.files.statistics_bin # << >>

RECURSIVE RecordsOf(_, _)
\* the records <id><term length><term> of a vocabulary file that was saved, from
\* pos on: the id of each and the position behind it
RecordsOf(bytes, pos) ==
    IF pos >= Len(bytes) THEN << >>
    ELSE (CHOOSE v \in {<<[id |-> Unwrap(VByteDecoder_next(bytes, pos).value), end |-> e]>>
                            \o RecordsOf(bytes, e) :
               e \in {VByteDecoder_next(bytes, VByteDecoder_next(bytes, pos).pos).pos
                          + Unwrap(VByteDecoder_next(
                                bytes, VByteDecoder_next(bytes, pos).pos).value)}} : TRUE)

AnswerOf(ix, q) == QueryResultIterator_collect(execute_query(ix, q))

\* C27: an index built persistently and then loaded from the same folder has the
\* term-to-id map and the document count of the original, and answers every atom
\* query with the doc ids the original answers it with
PersistRoundTrip ==
    (IsSome(folder.loaded) /\ FilesIntact) =>
        /\ Unwrap(folder.loaded).kind = "Ok"
        /\ Unwrap(folder.loaded).value.term_ids = Unwrap(folder.original).term_ids
        /\ Unwrap(folder.loaded).value.document_count
               = Unwrap(folder.original).document_count
        /\ Unwrap(folder.loaded).value.document_count = Len(folder.docs)
        /\ \A q \in PersistQueries :
               AnswerOf(Unwrap(folder.loaded).value, q) = AnswerOf(Unwrap(folder.original), q)
        /\ (folder.last.op = "execute_query" /\ folder.last.on = "loaded") =>
               folder.last.answer = AnswerOf(Unwrap(folder.original), Unwrap(folder.last.query))

\* an index whose terms got their ids against the order of the terms was loaded
\* after queries on the original, and answered a query with two documents
PersistRoundTripWitness ==
    /\ IsSome(folder.loaded)
    /\ FilesIntact
    /\ Len(folder.docs) >= 2
    /\ folder.docs[1] = <<2, 1>>
    /\ Unwrap(folder.original).postings.cursor # Len(folder.files.data_bin)
    /\ folder.last.op = "execute_query"
    /\ folder.last.on = "loaded"
    /\ Len(folder.last.answer) >= 2


\* C28: save_vocabulary writes the records of the vocabulary in ascending
\* term_id order, whatever the order of the terms is
VocabularyInIdOrder ==
    IsSome(folder.original) =>
        StrictlyIncreasing([i \in 1..Len(RecordsOf(folder.saved, 0)) |->
                                RecordsOf(folder.saved, 0)[i].id])

\* the records of the vocabulary file are in the order of their terms
VocabularyInTermOrder ==
    IsSome(folder.original) =>
        StrictlyIncreasing([i \in 1..Len(RecordsOf(folder.saved, 0)) |->
            CHOOSE t \in DOMAIN Unwrap(folder.original).term_ids :
                Unwrap(folder.original).term_ids[t] = RecordsOf(folder.saved, 0)[i].id])

\* vocabulary.bin ends inside a record: behind a term id, inside the term
\* length or before the last byte of the term
CutInsideRecord ==
    /\ folder.files.vocabulary_bin # folder.saved
    /\ Len(folder.files.vocabulary_bin)
           \notin {0} \cup {RecordsOf(folder.saved, 0)[i].end :
                               i \in 1..Len(RecordsOf(folder.saved, 0))}

\* C29: load_vocabulary returns CorruptedIndexFile when the vocabulary file ends
\* inside a record, and load_statistics returns CorruptedIndexFile when no
\* integer can be decoded from the statistics file
CorruptionReported ==
    IsSome(folder.loaded) =>
        /\ CutInsideRecord =>
               /\ IsErr(load_vocabulary(folder.files.vocabulary_bin), "CorruptedIndexFile")
               /\ IsErr(Unwrap(folder.loaded), "CorruptedIndexFile")
        /\ folder.files.statistics_bin = << >> =>
               IsErr(load_statistics(folder.files.statistics_bin), "CorruptedIndexFile")

\* load_statistics reports a statistics file without an integer, and so does
\* load when the vocabulary was read
StatisticsCorruptionReported ==
    (IsSome(folder.loaded) /\ folder.files.statistics_bin = << >>) =>
        /\ IsErr(load_statistics(folder.files.statistics_bin), "CorruptedIndexFile")
        /\ IsErr(Unwrap(folder.loaded), "CorruptedIndexFile")

\* load_vocabulary returns Ok whatever the file holds
VocabularyAlwaysLoads == load_vocabulary(folder.files.vocabulary_bin).kind = "Ok"

-----------------------------------------------------------------------------
(* Properties of the chunk stream *)

\* C30: reading a chunk from position 0 through ChunkRef returns exactly the
\* bytes that were written through write_posting, in write order, whatever the
\* calls they were written in and however many archived chunks they span: every
\* read returns the next bytes of the stream, as many as its buffer holds or
\* the stream has left, so that the stream ends exactly where the written bytes do
ChunkRoundTrip ==
    IsSome(chunk.reader) =>
        /\ Len(chunk.got) <= Len(chunk.written)
        /\ chunk.got = SubSeq(chunk.written, 1, Len(chunk.got))
        /\ Unwrap(chunk.reader).read_ptr = Len(chunk.got)
        /\ chunk.last.op = "read" =>
               chunk.last.moved
                   = Fits(Len(chunk.written) - (Len(chunk.got) - chunk.last.moved),
                          chunk.last.len)
        /\ (chunk.last.op = "read" /\ chunk.last.moved = 0) => chunk.got = chunk.written

\* a stream written in several calls that fills two archived chunks and part of
\* the hot chunk, in an archive that holds another owner's chunk, was read to
\* its end by a second ChunkRef
ChunkRoundTripWitness ==
    /\ IsSome(chunk.reader)
    /\ chunk.readers = 2
    /\ chunk.postings >= 3
    /\ Len(chunk.c.hot.archived_chunks) = 2
    /\ chunk.c.hot.capacity < CHUNK_SIZE
    /\ chunk.c.hot.archived_chunks[1][3] # 0
    /\ chunk.last.op = "read"
    /\ chunk.last.moved = 0
    /\ chunk.got = chunk.written

-----------------------------------------------------------------------------
(* Properties of the serialized index *)

\* C31: write_to, read_from and write_to again give the bytes of the first
\* write_to: read_from succeeds and every term and posting survives
SerialRoundTrip ==
    /\ IsSome(serial.back) =>
           /\ Unwrap(serial.back).kind = "Ok"
           /\ Unwrap(serial.back).value.index = serial.ix.index
    /\ IsSome(serial.second) =>
           Unwrap(serial.second).target = Unwrap(serial.first).target

\* the round trip of the indexes whose terms are shorter than 255 bytes
SerialRoundTripShortTerms ==
    (\A t \in DOMAIN serial.ix.index : Len(t) < U8_MAX) =>
        /\ IsSome(serial.back) =>
               /\ Unwrap(serial.back).kind = "Ok"
               /\ Unwrap(serial.back).value.index = serial.ix.index
        /\ IsSome(serial.second) =>
               Unwrap(serial.second).target = Unwrap(serial.first).target

\* C32: the value write_to returns is the number of bytes it wrote to the
\* target, also when it wrote them in more than one chunk
WriteReturnsBytesWritten ==
    IsSome(serial.first) =>
        IsOk(Unwrap(serial.first).result, Len(Unwrap(serial.first).target))

\* write_to returns what its last write returned
WriteReturnsLastWrite ==
    IsSome(serial.first) =>
        /\ IsOk(Unwrap(serial.first).result,
                Unwrap(serial.first).writes[Len(Unwrap(serial.first).writes)])
        /\ Len(Unwrap(serial.first).writes) = 1 =>
               IsOk(Unwrap(serial.first).result, Len(Unwrap(serial.first).target))

-----------------------------------------------------------------------------
(* Properties of the vocabulary *)

\* C39: the n distinct terms seen so far carry the ids 0..n-1 in the order of
\* their first appearance (so no two share an id), after get_or_add calls and
\* after index_documents; get_or_add returns the id the term carries, for a term
\* seen before the one it had, and changes no id; get returns the id of a term
\* that has one, None otherwise, and leaves the vocabulary as it was
TermIdsDenseAndStable ==
    /\ DOMAIN voc.term_ids = {voc.seen[i] : i \in 1..Len(voc.seen)}
    /\ \A i \in 1..Len(voc.seen) : voc.term_ids[voc.seen[i]] = i - 1
    /\ \A t \in DOMAIN voc.last.before :
           t \in DOMAIN voc.term_ids /\ voc.term_ids[t] = voc.last.before[t]
    /\ voc.last.op = "get_or_add" =>
           /\ voc.last.result = Some(voc.term_ids[voc.last.term])
           /\ voc.last.term \in DOMAIN voc.last.before => voc.term_ids = voc.last.before
    /\ voc.last.op = "get" =>
           /\ voc.term_ids = voc.last.before
           /\ voc.last.result =
                  IF voc.last.term \in DOMAIN voc.term_ids
                  THEN Some(voc.term_ids[voc.last.term]) ELSE None

\* a term is added again after two other terms were added, the first of which
\* is not the smallest
TermIdsDenseAndStableWitness ==
    /\ voc.last.op = "get_or_add"
    /\ voc.last.term \in DOMAIN voc.last.before
    /\ Len(voc.seen) = 3
    /\ voc.seen[1] > voc.seen[2]
    /\ voc.last.result = Some(0)

\* an index of 3 terms was built from documents and a term it lacks is looked up
IndexTermIdsReached ==
    /\ voc.kind = "BooleanIndex"
    /\ Len(voc.seen) = 3
    /\ voc.seen[1] > voc.seen[2]
    /\ voc.last.op = "get"
    /\ voc.last.result = None
-----------------------------------------------------------------------------
(* Invariants of ship and commit *)

\* the blocks of a listing as they are stored, in block order: those of its
\* pages, then the blocks shipped to the page it is filling
ListingBlocks(l, c) ==
    BlockIter_new(c, l.pages)
        \o (IF IsSome(l.current_page)
            THEN SubSeq(Unwrap(c.ram[Unwrap(l.current_page) + 1]), 1, l.block_counter)
            ELSE << >>)

\* the p-th shipped posting (from 1), rebuilt from its block and the bias of
\* that block
Restored(l, c, p) ==
    AddBase(ListingBlocks(l, c)[((p - 1) \div BlockPostings) + 1][((p - 1) % BlockPostings) + 1],
            l.block_biases[((p - 1) \div BlockPostings) + 1])

\* C33 (as claimed): after any sequence of add and commit calls the bias ship
\* recorded for block k is the base that was subtracted from the postings of
\* block k: every stored value plus block_biases[k] is the doc id that was added
\* (strictly increasing postings fill the blocks in order).
BiasEqualsBase ==
    StrictlyIncreasing(added) =>
        \A p \in 1..(Len(added) - listing.posting_buffer.count) :
            /\ (p - 1) \div BlockPostings < Len(ListingBlocks(listing, cache))
            /\ Restored(listing, cache, p) = added[p]

\* the same for a listing to which nothing was added after a commit
BiasEqualsBaseUntilCommit ==
    (StrictlyIncreasing(added) /\ (CommitCount = 0 \/ (CommitCount = 1 /\ LastCallIsCommit))) =>
        \A p \in 1..(Len(added) - listing.posting_buffer.count) :
            /\ (p - 1) \div BlockPostings < Len(ListingBlocks(listing, cache))
            /\ Restored(listing, cache, p) = added[p]


\* the slots of the page in the cache that hold a block
RamWrittenSlots(c, page_id) ==
    {b \in 0..(PAGESIZE - 1) : Unwrap(c.ram[page_id + 1])[b + 1] # EmptyBlock}

\* C34: between the operations on a listing current_page is None exactly when
\* block_counter is first: for a new listing, after a commit and after the block
\* that filled a page.  Otherwise current_page names a page that is in the cache
\* and holds the block_counter blocks shipped since, so that the store_in_place
\* of the next ship has its page.
CurrentPageInvariant ==
    /\ listing.current_page = None <=> listing.block_counter = BlockId_first
    /\ (calls = << >> \/ LastCallIsCommit) => listing.current_page = None
    /\ IsSome(listing.current_page) =>
           /\ Unwrap(listing.current_page) < Len(cache.ram)
           /\ IsSome(cache.ram[Unwrap(listing.current_page) + 1])
           /\ RamWrittenSlots(cache, Unwrap(listing.current_page))
                  = 0..(listing.block_counter - 1)

\* C34 witness: two blocks were shipped after the block that filled a page, the
\* first to a new page, the second into its slot 1
CurrentPageInvariantWitness ==
    /\ Len(listing.pages.full) = 1
    /\ IsSome(listing.current_page)
    /\ listing.block_counter = 2
    /\ Len(listing.block_biases) = PAGESIZE + 2


\* C35: every unfull descriptor of a listing (and every descriptor the cache
\* retains) has from < to < PAGESIZE, and a stored page whose last slot holds a
\* block is one of the full pages of the listing and not its unfull page; the
\* page being filled never has its last slot written between two calls.
UnfullDescriptorRange ==
    /\ \A u \in Range(listing.pages.unfull) \cup cache.unfull :
           u.from < u.to /\ u.to < PAGESIZE
    /\ \A page_id \in 0..(Len(cache.disk) - 1) :
           BlockId_last \in WrittenSlots(cache, page_id) =>
               /\ page_id \in Range(listing.pages.full)
               /\ \A u \in Range(listing.pages.unfull) \cup cache.unfull :
                      u.page_id # page_id
    /\ IsSome(listing.current_page) =>
           BlockId_last \notin RamWrittenSlots(cache, Unwrap(listing.current_page))

\* C35 witness: a commit after the last but one slot of a second page was
\* written, next to a full page
UnfullDescriptorRangeWitness ==
    /\ LastCallIsCommit
    /\ IsSome(listing.pages.unfull)
    /\ Unwrap(listing.pages.unfull).to = 2
    /\ Len(listing.pages.full) = 1
    /\ BlockId_last \in WrittenSlots(cache, listing.pages.full[1])

\* a commit with all slots but the last written leaves a descriptor up to P - 1
UnfullDescriptorLongest ==
    /\ IsSome(listing.pages.unfull)
    /\ Unwrap(listing.pages.unfull).to = PAGESIZE - 1


\* C38: a commit on a new listing or on a listing that was just committed ships
\* no block and calls no cache operation: the listing (pages, block_biases,
\* len(), block_start, block_end, block_counter, its buffer) and the cache are
\* after it what they were before it.
CommitIdempotent ==
    [][((calls = << >> \/ LastCallIsCommit) /\ calls' = Append(calls, CommitCall))
           => (listing' = listing /\ cache' = cache)]_vars

\* C38 witness: a second commit right after the commit of a listing of more
\* than one block
CommitIdempotentWitness ==
    /\ Len(calls) >= 3
    /\ calls[Len(calls)] = CommitCall
    /\ calls[Len(calls) - 1] = CommitCall
    /\ Len(listing.block_biases) >= 2
    /\ IsSome(listing.pages.unfull)


\* the fields of a listing C37 names
ShipFields(l) == <<l.block_biases, l.pages, l.current_page, l.block_counter>>

\* C37 (as claimed): when a cache operation fails inside ship (store_block,
\* store_in_place or flush_page), block_biases, pages, current_page and
\* block_counter are what they were when that ship began.
ShipAllOrNothing ==
    IsSome(fault) => ShipFields(Unwrap(fault).after) = ShipFields(Unwrap(fault).before)

\* a failing store_block or store_in_place leaves the four fields alone; a
\* failing flush_page leaves the bias of the block it stored pushed and
\* current_page taken
ShipCutShort ==
    IsSome(fault) =>
        IF Unwrap(fault).failing = "flush_page"
        THEN /\ Unwrap(fault).after.block_biases
                    = Append(Unwrap(fault).before.block_biases,
                             Unwrap(fault).before.block_start)
             /\ Unwrap(fault).after.current_page = None
             /\ IsSome(Unwrap(fault).before.current_page)
             /\ Unwrap(fault).after.block_counter = BlockId_last
             /\ Unwrap(fault).after.pages = Unwrap(fault).before.pages
        ELSE ShipFields(Unwrap(fault).after) = ShipFields(Unwrap(fault).before)

-----------------------------------------------------------------------------
(* Properties of a storage with failed stores *)

\* every item a store that returned Ok stored last under its id is what get
\* returns for the id, and its entry records the position at which its bytes
\* were written
FsCoherent ==
    /\ ItemsIntact
    /\ \A id \in DOMAIN fs.latest :
           fs.storage.entries[id].offset = fs.written_at[id]

\* C36 (as claimed): when a store has returned an error, every item stored
\* successfully before or after it is returned by get as it was stored, and the
\* recorded offsets are the positions at which the data was written.
FailedStoreCoherent == fs.failures >= 1 => FsCoherent

\* the same while no store has failed
CoherentWithoutFailure == fs.failures = 0 => FsCoherent

====
